---- MODULE Spec2Model ----
(***************************************************************************)
(* Inventory ledger of the inventory-management application: the JSON      *)
(* collections products / warehouses / stock / transfers and the API       *)
(* route handlers that mutate them (pages/api/transfers, pages/api/stock,  *)
(* pages/api/stock/[id], pages/api/transfers/[id], pages/api/products/[id],*)
(* pages/api/warehouses/[id]).                                             *)
(*                                                                         *)
(* Request fields arrive as JSON values and go through parseInt(x, 10); a  *)
(* raw value is modelled as the sequence of the characters of String(x),   *)
(* and undefined / null as the one-element sequence Undefined.  The        *)
(* createdAt / updatedAt stamps of stock and transfer records are left     *)
(* out: no handler reads them back.                                        *)
(***************************************************************************)
EXTENDS Integers, Sequences, FiniteSets, TLC

\* ------------------------------------------------------------------ bounds

\* Number of requests served in one run of Spec and SpecFault.
MaxRequests == 2
\* Largest quantity of a stock record in the stores a single request starts from.
MaxQty == 2

\* ------------------------------------------------------------ raw values

Undefined == <<"undefined">>

DigitChars == {"0", "1", "2", "3", "4", "5", "6", "7", "8", "9"}

DigitVal(c) ==
    CASE c = "0" -> 0 [] c = "1" -> 1 [] c = "2" -> 2 [] c = "3" -> 3
      [] c = "4" -> 4 [] c = "5" -> 5 [] c = "6" -> 6 [] c = "7" -> 7
      [] c = "8" -> 8 [] c = "9" -> 9

NaN == [nan |-> TRUE, val |-> 0]

Num(n) == [nan |-> FALSE, val |-> n]

RECURSIVE TrimStart(_)
TrimStart(s) ==
    IF s # <<>> /\ Head(s) = " " THEN TrimStart(Tail(s)) ELSE s

RECURSIVE DigitPrefix(_, _)
DigitPrefix(s, acc) ==
    IF s = <<>> \/ Head(s) \notin DigitChars
    THEN acc
    ELSE DigitPrefix(Tail(s), acc * 10 + DigitVal(Head(s)))

\* parseInt(x, 10): leading blanks skipped, an optional sign, then the longest
\* run of decimal digits; what follows the digits is ignored; no digit: NaN.
parseInt(raw) ==
    IF raw = Undefined
    THEN NaN
    ELSE LET s == TrimStart(raw)
             signed == s # <<>> /\ Head(s) \in {"-", "+"}
             t == IF signed THEN Tail(s) ELSE s
         IN  IF t = <<>> \/ Head(t) \notin DigitChars
             THEN NaN
             ELSE Num((IF signed /\ Head(s) = "-" THEN -1 ELSE 1) * DigitPrefix(t, 0))

\* ------------------------------------------------------------ collections

Ids(coll) == {coll[i].id : i \in 1..Len(coll)}

SetMax(S) == CHOOSE m \in S : \A x \in S : x <= m

\* coll.length ? Math.max(...coll.map((r) => r.id)) + 1 : 1
NextId(coll) == IF Len(coll) = 0 THEN 1 ELSE SetMax(Ids(coll)) + 1

\* Array.prototype.findIndex, 1-based; 0 stands for -1.
FindStockIndex(stk, p, w) ==
    LET hits == {i \in 1..Len(stk) : stk[i].productId = p /\ stk[i].warehouseId = w}
    IN  IF hits = {} THEN 0 ELSE CHOOSE i \in hits : \A j \in hits : i <= j

FindIdIndex(coll, id) ==
    LET hits == {i \in 1..Len(coll) : coll[i].id = id}
    IN  IF hits = {} THEN 0 ELSE CHOOSE i \in hits : \A j \in hits : i <= j

\* Array.prototype.splice(index, 1)
Splice(coll, i) == [k \in 1..(Len(coll) - 1) |-> IF k < i THEN coll[k] ELSE coll[k + 1]]

\* ---------------------------------------------------------------- responses

Response(status, error, message) ==
    [status |-> status, error |-> error, message |-> message,
     hasAvailable |-> FALSE, available |-> 0]

InternalError ==
    Response(500, "Internal Server Error", "An error occurred while processing the transfer.")

\* --------------------------------------------------------- POST /api/transfers

\* The checks on the request body alone; "" when the body passes.
ValidateTransferBody(body) ==
    IF body.productId = Undefined THEN "Product ID is required."
    ELSE IF body.fromWarehouseId = Undefined THEN "Source warehouse ID is required."
    ELSE IF body.toWarehouseId = Undefined THEN "Destination warehouse ID is required."
    ELSE IF body.quantity = Undefined THEN "Quantity is required."
    ELSE IF parseInt(body.productId).nan THEN "Product ID must be a valid number."
    ELSE IF parseInt(body.fromWarehouseId).nan \/ parseInt(body.toWarehouseId).nan
        THEN "Warehouse IDs must be valid numbers."
    ELSE IF parseInt(body.fromWarehouseId).val = parseInt(body.toWarehouseId).val
        THEN "Source and destination warehouses must be different."
    ELSE IF parseInt(body.quantity).nan \/ parseInt(body.quantity).val <= 0
        THEN "Quantity must be a positive number."
    ELSE ""

\* Product and warehouses must exist; "" when they do.
CheckTransferReferences(prods, whs, p, from, to) ==
    IF p \notin Ids(prods) THEN "The specified product does not exist."
    ELSE IF from \notin Ids(whs) THEN "Source warehouse does not exist."
    ELSE IF to \notin Ids(whs) THEN "Destination warehouse does not exist."
    ELSE ""

\* Mutant of InsufficientSource: the availability check never rejects.
InsufficientSourceIgnored(sourceStock, q) == FALSE

\* Mutant of InsufficientResponse: the response names no available amount.
InsufficientResponseNoAmount(sourceStock) ==
    [status |-> 400, error |-> "Insufficient stock", message |-> "Only N units available",
     hasAvailable |-> FALSE, available |-> 0]

\* sourceStock.quantity < parsedQuantity
InsufficientSource(sourceStock, q) == sourceStock.quantity < q

InsufficientResponse(sourceStock) ==
    [status |-> 400, error |-> "Insufficient stock", message |-> "Only N units available",
     hasAvailable |-> TRUE, available |-> sourceStock.quantity]

NoStockResponse == Response(400, "No stock available", "Product is not available at source")

\* Mutant of DebitSource: the source is left as it was.
DebitSourceSkipped(stk, si, q) == stk

\* stock[sourceStockIndex].quantity -= parsedQuantity
DebitSource(stk, si, q) == [stk EXCEPT ![si].quantity = @ - q]

\* Mutant of CreditDestination: an existing destination is overwritten with
\* the quantity moved instead of being increased by it.
CreditDestinationOverwrite(stk, p, to, q) ==
    LET di == FindStockIndex(stk, p, to)
    IN  IF di = 0
        THEN Append(stk, [id |-> NextId(stk), productId |-> p, warehouseId |-> to,
                          quantity |-> q])
        ELSE [stk EXCEPT ![di].quantity = q]

\* Find or create the destination record and add the quantity to it.
CreditDestination(stk, p, to, q) ==
    LET di == FindStockIndex(stk, p, to)
    IN  IF di = 0
        THEN Append(stk, [id |-> NextId(stk), productId |-> p, warehouseId |-> to,
                          quantity |-> q])
        ELSE [stk EXCEPT ![di].quantity = @ + q]

\* Mutant of NewTransfer: source and destination swapped in the record.
NewTransferSwapped(trs, p, from, to, q) ==
    [id |-> NextId(trs), productId |-> p, fromWarehouseId |-> to,
     toWarehouseId |-> from, quantity |-> q, status |-> "completed"]

NewTransfer(trs, p, from, to, q) ==
    [id |-> NextId(trs), productId |-> p, fromWarehouseId |-> from,
     toWarehouseId |-> to, quantity |-> q, status |-> "completed"]

\* Mutant of PostTransfer: the destination warehouse is looked up only after
\* stock.json was saved.
PostTransferSavesBeforeDestinationCheck(body, prods, whs, stk, trs, fault) ==
    LET bad == ValidateTransferBody(body)
        p == parseInt(body.productId).val
        from == parseInt(body.fromWarehouseId).val
        to == parseInt(body.toWarehouseId).val
        q == parseInt(body.quantity).val
        missing == CheckTransferReferences(prods, whs, p, from, from)
        si == FindStockIndex(stk, p, from)
        newStock == CreditDestination(DebitSource(stk, si, q), p, to, q)
        newTransfer == NewTransfer(trs, p, from, to, q)
    IN  IF bad # ""
        THEN [res |-> Response(400, "Validation failed", bad), stock |-> stk, transfers |-> trs]
        ELSE IF missing # ""
        THEN [res |-> Response(404, "Not Found", missing), stock |-> stk, transfers |-> trs]
        ELSE IF si = 0
        THEN [res |-> NoStockResponse, stock |-> stk, transfers |-> trs]
        ELSE IF InsufficientSource(stk[si], q)
        THEN [res |-> InsufficientResponse(stk[si]), stock |-> stk, transfers |-> trs]
        ELSE IF to \notin Ids(whs)
        THEN [res |-> Response(404, "Not Found", "Destination warehouse does not exist."),
              stock |-> newStock, transfers |-> trs]
        ELSE [res |-> Response(201, "", ""), stock |-> newStock,
              transfers |-> Append(trs, newTransfer)]

\* The POST branch of the handler.  fault names the statement that throws:
\* "notes" (notes.trim on a truthy non-string), "stock" (the write of
\* stock.json), "transfers" (the write of transfers.json), or "none".
\* The result carries the response and the two collections as they are on
\* disk when the handler returns.
PostTransfer(body, prods, whs, stk, trs, fault) ==
    LET bad == ValidateTransferBody(body)
        p == parseInt(body.productId).val
        from == parseInt(body.fromWarehouseId).val
        to == parseInt(body.toWarehouseId).val
        q == parseInt(body.quantity).val
        missing == CheckTransferReferences(prods, whs, p, from, to)
        si == FindStockIndex(stk, p, from)
        newStock == CreditDestination(DebitSource(stk, si, q), p, to, q)
        newTransfer == NewTransfer(trs, p, from, to, q)
    IN  IF bad # ""
        THEN [res |-> Response(400, "Validation failed", bad), stock |-> stk, transfers |-> trs]
        ELSE IF missing # ""
        THEN [res |-> Response(404, "Not Found", missing), stock |-> stk, transfers |-> trs]
        ELSE IF si = 0
        THEN [res |-> NoStockResponse, stock |-> stk, transfers |-> trs]
        ELSE IF InsufficientSource(stk[si], q)
        THEN [res |-> InsufficientResponse(stk[si]), stock |-> stk, transfers |-> trs]
        ELSE IF fault \in {"notes", "stock"}
        THEN [res |-> InternalError, stock |-> stk, transfers |-> trs]
        ELSE IF fault = "transfers"
        THEN [res |-> InternalError, stock |-> newStock, transfers |-> trs]
        ELSE [res |-> Response(201, "", ""), stock |-> newStock,
              transfers |-> Append(trs, newTransfer)]

\* ------------------------------------------------------------ POST /api/stock

\* validateStock(data, products, warehouses).length === 0
\* Mutant of ValidStock: the product is not looked up.
ValidStockAnyProduct(body, prods, whs) ==
    /\ body.productId # Undefined
    /\ ~parseInt(body.productId).nan
    /\ body.warehouseId # Undefined
    /\ ~parseInt(body.warehouseId).nan
    /\ parseInt(body.warehouseId).val \in Ids(whs)
    /\ body.quantity # Undefined
    /\ ~parseInt(body.quantity).nan
    /\ parseInt(body.quantity).val >= 0

ValidStock(body, prods, whs) ==
    /\ body.productId # Undefined
    /\ ~parseInt(body.productId).nan
    /\ parseInt(body.productId).val \in Ids(prods)
    /\ body.warehouseId # Undefined
    /\ ~parseInt(body.warehouseId).nan
    /\ parseInt(body.warehouseId).val \in Ids(whs)
    /\ body.quantity # Undefined
    /\ ~parseInt(body.quantity).nan
    /\ parseInt(body.quantity).val >= 0

PostStock(body, prods, whs, stk) ==
    LET p == parseInt(body.productId).val
        w == parseInt(body.warehouseId).val
        q == parseInt(body.quantity).val
    IN  IF ~ValidStock(body, prods, whs)
        THEN [res |-> Response(400, "Validation failed", ""), stock |-> stk]
        ELSE IF FindStockIndex(stk, p, w) # 0
        THEN [res |-> Response(409, "Conflict", "A stock record for this product and warehouse already exists. Use PUT to update."),
              stock |-> stk]
        ELSE [res |-> Response(201, "", ""),
              stock |-> Append(stk, [id |-> NextId(stk), productId |-> p,
                                     warehouseId |-> w, quantity |-> q])]

\* ----------------------------------------------- PUT, DELETE /api/stock/[id]

\* validateStockUpdate(data, products, warehouses).length === 0; a field is
\* skipped only when it is undefined.
ValidStockUpdate(body, prods, whs) ==
    /\ body.productId # Undefined =>
          ~parseInt(body.productId).nan /\ parseInt(body.productId).val \in Ids(prods)
    /\ body.warehouseId # Undefined =>
          ~parseInt(body.warehouseId).nan /\ parseInt(body.warehouseId).val \in Ids(whs)
    /\ body.quantity # Undefined =>
          ~parseInt(body.quantity).nan /\ parseInt(body.quantity).val >= 0

\* Mutant of UpdateConflict: the PUT branch checks no duplicate.
UpdateConflictUnchecked(stk, index, p, w) == FALSE

\* The duplicate check of the PUT branch: another record already holds the pair.
UpdateConflict(stk, index, p, w) ==
    /\ p # stk[index].productId \/ w # stk[index].warehouseId
    /\ \E i \in 1..Len(stk) :
          stk[i].productId = p /\ stk[i].warehouseId = w /\ stk[i].id # stk[index].id

PutStock(id, body, prods, whs, stk) ==
    LET parsedId == parseInt(id)
        index == FindIdIndex(stk, parsedId.val)
        p == IF body.productId # Undefined
             THEN parseInt(body.productId).val ELSE stk[index].productId
        w == IF body.warehouseId # Undefined
             THEN parseInt(body.warehouseId).val ELSE stk[index].warehouseId
        q == IF body.quantity # Undefined
             THEN parseInt(body.quantity).val ELSE stk[index].quantity
    IN  IF parsedId.nan
        THEN [res |-> Response(400, "Bad Request", "Invalid stock ID"), stock |-> stk]
        ELSE IF index = 0
        THEN [res |-> Response(404, "Not Found", "Stock item not found"), stock |-> stk]
        ELSE IF ~ValidStockUpdate(body, prods, whs)
        THEN [res |-> Response(400, "Validation failed", ""), stock |-> stk]
        ELSE IF UpdateConflict(stk, index, p, w)
        THEN [res |-> Response(409, "Conflict", "A stock record for this product and warehouse already exists"),
              stock |-> stk]
        ELSE [res |-> Response(200, "", ""),
              stock |-> [stk EXCEPT ![index] =
                            [id |-> parsedId.val, productId |-> p,
                             warehouseId |-> w, quantity |-> q]]]

DeleteStock(id, stk) ==
    LET parsedId == parseInt(id)
        index == FindIdIndex(stk, parsedId.val)
    IN  IF parsedId.nan
        THEN [res |-> Response(400, "Bad Request", "Invalid stock ID"), stock |-> stk]
        ELSE IF index = 0
        THEN [res |-> Response(404, "Not Found", "Stock item not found"), stock |-> stk]
        ELSE [res |-> Response(204, "", ""), stock |-> Splice(stk, index)]

\* ------------------------------------------------ DELETE /api/transfers/[id]

\* Mutant of DeleteTransfer: the oldest record is removed, whatever the id.
DeleteTransferHead(id, trs) ==
    LET transferId == parseInt(id)
        transferIndex == FindIdIndex(trs, transferId.val)
    IN  IF transferId.nan
        THEN [res |-> Response(400, "Bad Request", "Invalid transfer ID"), transfers |-> trs]
        ELSE IF transferIndex = 0
        THEN [res |-> Response(404, "Not Found", "Transfer does not exist."), transfers |-> trs]
        ELSE [res |-> Response(204, "", ""), transfers |-> Tail(trs)]

DeleteTransfer(id, trs) ==
    LET transferId == parseInt(id)
        transferIndex == FindIdIndex(trs, transferId.val)
    IN  IF transferId.nan
        THEN [res |-> Response(400, "Bad Request", "Invalid transfer ID"), transfers |-> trs]
        ELSE IF transferIndex = 0
        THEN [res |-> Response(404, "Not Found", "Transfer does not exist."), transfers |-> trs]
        ELSE [res |-> Response(204, "", ""), transfers |-> Splice(trs, transferIndex)]

\* ------------------------- DELETE /api/products/[id], /api/warehouses/[id]

\* Mutant of WithoutProduct: every stock record is dropped.
WithoutProductOrOthers(stk, id) == <<>>

\* stock.filter((s) => s.productId !== parsedId)
WithoutProduct(stk, id) ==
    LET Keep(s) == s.productId # id IN SelectSeq(stk, Keep)

\* stock.filter((s) => s.warehouseId !== parsedId)
WithoutWarehouse(stk, id) ==
    LET Keep(s) == s.warehouseId # id IN SelectSeq(stk, Keep)

DeleteProduct(id, cascade, prods, stk) ==
    LET parsedId == parseInt(id)
        index == FindIdIndex(prods, parsedId.val)
        related == Len(stk) - Len(WithoutProduct(stk, parsedId.val))
    IN  IF parsedId.nan
        THEN [res |-> Response(400, "Bad Request", "Invalid product ID"),
              products |-> prods, stock |-> stk]
        ELSE IF index = 0
        THEN [res |-> Response(404, "Not Found", "Product not found"),
              products |-> prods, stock |-> stk]
        ELSE IF related > 0 /\ cascade # "true"
        THEN [res |-> Response(409, "Conflict", "Cannot delete product"),
              products |-> prods, stock |-> stk]
        ELSE [res |-> Response(204, "", ""), products |-> Splice(prods, index),
              stock |-> IF cascade = "true" /\ related > 0
                        THEN WithoutProduct(stk, parsedId.val) ELSE stk]

DeleteWarehouse(id, cascade, whs, stk) ==
    LET parsedId == parseInt(id)
        index == FindIdIndex(whs, parsedId.val)
        related == Len(stk) - Len(WithoutWarehouse(stk, parsedId.val))
    IN  IF parsedId.nan
        THEN [res |-> Response(400, "Bad Request", "Invalid warehouse ID"),
              warehouses |-> whs, stock |-> stk]
        ELSE IF index = 0
        THEN [res |-> Response(404, "Not Found", "Warehouse not found"),
              warehouses |-> whs, stock |-> stk]
        ELSE IF related > 0 /\ cascade # "true"
        THEN [res |-> Response(409, "Conflict", "Cannot delete warehouse"),
              warehouses |-> whs, stock |-> stk]
        ELSE [res |-> Response(204, "", ""), warehouses |-> Splice(whs, index),
              stock |-> IF cascade = "true" /\ related > 0
                        THEN WithoutWarehouse(stk, parsedId.val) ELSE stk]

\* ------------------------------------------------------------------ state

VARIABLES
    products,     \* data/products.json
    warehouses,   \* data/warehouses.json
    stock,        \* data/stock.json
    transfers,    \* data/transfers.json
    last,         \* the request served last and the response it got
    served,       \* number of requests served so far
    clients,      \* the transfer requests in flight, each with what it has read
    alerts,       \* data/alerts.json
    args,         \* the arguments the status and reorder functions are called with
    calls         \* the calls of those functions made so far, with what they returned

vars == <<products, warehouses, stock, transfers, last, served, clients, alerts, args, calls>>

NoRequest == [op |-> "none", req |-> <<>>, res |-> Response(0, "", "")]

Product1 == [id |-> 1, reorderPoint |-> 2, unitCost |-> 1]

Product2 == [id |-> 2, reorderPoint |-> 0, unitCost |-> 1]

StockRecord(id, p, w, q) == [id |-> id, productId |-> p, warehouseId |-> w, quantity |-> q]

\* Stores a run starts from: every record references an existing product and
\* warehouse, no pair occurs twice, no quantity is negative.
InitStocks ==
    { <<StockRecord(1, 1, 1, 2), StockRecord(2, 2, 1, 1)>>,
      <<StockRecord(1, 1, 1, 1), StockRecord(2, 1, 2, 0), StockRecord(3, 2, 2, 1)>> }

InitTransfers ==
    { <<>>,
      <<[id |-> 1, productId |-> 2, fromWarehouseId |-> 2, toWarehouseId |-> 1,
         quantity |-> 1, status |-> "completed"]>> }

Init ==
    /\ products = <<Product1, Product2>>
    /\ warehouses = <<[id |-> 1], [id |-> 2]>>
    /\ stock \in InitStocks
    /\ transfers \in InitTransfers
    /\ last = NoRequest
    /\ served = 0
    /\ clients = <<>>
    /\ alerts = <<>>
    /\ args = <<>>
    /\ calls = <<>>

\* ------------------------------------------------- requests, one per action

CreateTransfer(body, fault) ==
    LET out == PostTransfer(body, products, warehouses, stock, transfers, fault)
    IN  /\ stock' = out.stock
        /\ transfers' = out.transfers
        /\ last' = [op |-> "transfer", req |-> body, res |-> out.res]
        /\ UNCHANGED <<products, warehouses, clients, alerts, args, calls>>

CreateStock(body) ==
    LET out == PostStock(body, products, warehouses, stock)
    IN  /\ stock' = out.stock
        /\ last' = [op |-> "stock.create", req |-> body, res |-> out.res]
        /\ UNCHANGED <<products, warehouses, transfers, clients, alerts, args, calls>>

UpdateStock(id, body) ==
    LET out == PutStock(id, body, products, warehouses, stock)
    IN  /\ stock' = out.stock
        /\ last' = [op |-> "stock.update", req |-> [id |-> id, body |-> body], res |-> out.res]
        /\ UNCHANGED <<products, warehouses, transfers, clients, alerts, args, calls>>

RemoveStock(id) ==
    LET out == DeleteStock(id, stock)
    IN  /\ stock' = out.stock
        /\ last' = [op |-> "stock.delete", req |-> [id |-> id], res |-> out.res]
        /\ UNCHANGED <<products, warehouses, transfers, clients, alerts, args, calls>>

RemoveTransfer(id) ==
    LET out == DeleteTransfer(id, transfers)
    IN  /\ transfers' = out.transfers
        /\ last' = [op |-> "transfer.delete", req |-> [id |-> id], res |-> out.res]
        /\ UNCHANGED <<products, warehouses, stock, clients, alerts, args, calls>>

RemoveProduct(id, cascade) ==
    LET out == DeleteProduct(id, cascade, products, stock)
    IN  /\ products' = out.products
        /\ stock' = out.stock
        /\ last' = [op |-> "product.delete", req |-> [id |-> id, cascade |-> cascade],
                    res |-> out.res]
        /\ UNCHANGED <<warehouses, transfers, clients, alerts, args, calls>>

RemoveWarehouse(id, cascade) ==
    LET out == DeleteWarehouse(id, cascade, warehouses, stock)
    IN  /\ warehouses' = out.warehouses
        /\ stock' = out.stock
        /\ last' = [op |-> "warehouse.delete", req |-> [id |-> id, cascade |-> cascade],
                    res |-> out.res]
        /\ UNCHANGED <<products, transfers, clients, alerts, args, calls>>

\* ------------------------------------------ Spec: requests served in sequence

ExistingIdInputs == {<<"1">>, <<"2">>}

TransferRequests ==
    [productId : ExistingIdInputs, fromWarehouseId : ExistingIdInputs,
     toWarehouseId : ExistingIdInputs, quantity : {<<"1">>, <<"2">>}]

StockRequests ==
    [productId : ExistingIdInputs, warehouseId : ExistingIdInputs,
     quantity : {<<"0">>, <<"1">>, <<"-", "1">>}]

StockUpdates ==
    [productId : {Undefined, <<"2">>}, warehouseId : {Undefined, <<"2">>},
     quantity : {Undefined, <<"0">>, <<"-", "1">>}]

PathIds == {<<"1">>, <<"2">>, <<"3">>}

CascadeInputs == {"true", "false"}

Serve == served < MaxRequests /\ served' = served + 1

Next ==
    \/ \E body \in TransferRequests : Serve /\ CreateTransfer(body, "none")
    \/ \E body \in StockRequests : Serve /\ CreateStock(body)
    \/ \E id \in PathIds, body \in StockUpdates : Serve /\ UpdateStock(id, body)
    \/ \E id \in PathIds : Serve /\ RemoveStock(id)
    \/ \E id \in PathIds : Serve /\ RemoveTransfer(id)
    \/ \E id \in ExistingIdInputs, cascade \in CascadeInputs : Serve /\ RemoveProduct(id, cascade)
    \/ \E id \in ExistingIdInputs, cascade \in CascadeInputs : Serve /\ RemoveWarehouse(id, cascade)

Spec == Init /\ [][Next]_vars

\* -------------------------------- SpecRequest: one transfer request, any body

IdInputs == {Undefined, <<"1">>, <<"2">>, <<"x">>}

QuantityInputs ==
    {Undefined, <<"0">>, <<"1">>, <<"2">>, <<"3">>, <<"-", "1">>, <<"2", ".", "5">>,
     <<"1", "x">>, <<"x">>}

TransferBodies ==
    [productId : IdInputs, fromWarehouseId : IdInputs, toWarehouseId : IdInputs,
     quantity : QuantityInputs]

\* The records of product 1 (none, or any quantity up to MaxQty, in each
\* warehouse that exists) before the record of product 2, ids in order.
RequestStocks(prods, whs) ==
    LET Absent == MaxQty + 1
        Held(q, w) == IF q = Absent \/ 1 \notin Ids(prods) \/ w \notin Ids(whs)
                      THEN <<>> ELSE <<[productId |-> 1, warehouseId |-> w, quantity |-> q]>>
        Other == IF 2 \in Ids(prods) /\ 1 \in Ids(whs)
                 THEN <<[productId |-> 2, warehouseId |-> 1, quantity |-> 1]>> ELSE <<>>
        Numbered(recs) == [i \in 1..Len(recs) |->
                              StockRecord(i, recs[i].productId, recs[i].warehouseId,
                                          recs[i].quantity)]
    IN  {Numbered(Held(q1, 1) \o Held(q2, 2) \o Other) : q1 \in 0..Absent, q2 \in 0..Absent}

InitRequest ==
    /\ products \in {<<Product1, Product2>>, <<Product2>>}
    /\ warehouses \in {<<[id |-> 1], [id |-> 2]>>, <<[id |-> 1]>>, <<[id |-> 2]>>}
    /\ stock \in RequestStocks(products, warehouses)
    /\ transfers \in InitTransfers
    /\ last = NoRequest
    /\ served = 0
    /\ clients = <<>>
    /\ alerts = <<>>
    /\ args = <<>>
    /\ calls = <<>>

NextRequest ==
    \E body \in TransferBodies :
        served = 0 /\ served' = 1 /\ CreateTransfer(body, "none")

SpecRequest == InitRequest /\ [][NextRequest]_vars

\* ---------------------------------------------------------------- claims

\* getQuantity of the ledger: 0 when the pair has no record.
Quantity(stk, p, w) ==
    LET i == FindStockIndex(stk, p, w) IN IF i = 0 THEN 0 ELSE stk[i].quantity

RECURSIVE TotalQuantity(_, _)
TotalQuantity(stk, p) ==
    IF stk = <<>> THEN 0
    ELSE (IF Head(stk).productId = p THEN Head(stk).quantity ELSE 0)
         + TotalQuantity(Tail(stk), p)

ProductIds == {1, 2}

WarehouseIds == {1, 2}

\* The step serves a transfer request and answers 201.
TransferSucceeds ==
    served' = served + 1 /\ last'.op = "transfer" /\ last'.res.status = 201

\* The step serves a transfer request.
TransferServed == served' = served + 1 /\ last'.op = "transfer"

ReqProduct(body) == parseInt(body.productId).val

ReqFrom(body) == parseInt(body.fromWarehouseId).val

ReqTo(body) == parseInt(body.toWarehouseId).val

ReqQuantity(body) == parseInt(body.quantity).val

\* C1: a successful transfer of q units of p from A to B takes q from (p, A),
\* adds q to (p, B), an absent record counting as 0, and leaves the total of
\* every product over all warehouses as it was.
Conservation ==
    [][TransferSucceeds =>
          LET b == last'.req
              p == ReqProduct(b)
              q == ReqQuantity(b)
          IN  /\ Quantity(stock', p, ReqFrom(b)) = Quantity(stock, p, ReqFrom(b)) - q
              /\ Quantity(stock', p, ReqTo(b)) = Quantity(stock, p, ReqTo(b)) + q
              /\ \A pp \in ProductIds : TotalQuantity(stock', pp) = TotalQuantity(stock, pp)
      ]_vars

\* A transfer succeeded into a destination that already held units.
ConservationWitness ==
    /\ last.op = "transfer"
    /\ last.res.status = 201
    /\ Quantity(stock, ReqProduct(last.req), ReqTo(last.req)) > ReqQuantity(last.req)
    /\ Quantity(stock, ReqProduct(last.req), ReqFrom(last.req)) > 0

\* The step serves a stock create or update whose quantity field is negative.
NegativeStockEdit ==
    /\ served' = served + 1
    /\ \/ last'.op = "stock.create" /\ ReqQuantity(last'.req) < 0
       \/ last'.op = "stock.update" /\ ReqQuantity(last'.req.body) < 0

\* The step serves a transfer of more units than the source record holds.
Overdraw ==
    /\ TransferServed
    /\ ReqQuantity(last'.req) >
          Quantity(stock, ReqProduct(last'.req), ReqFrom(last'.req))

\* C2: every stock record holds an integer quantity >= 0 in every state, and a
\* request that would make a quantity negative (a negative stock edit, a
\* transfer of more than the source holds) is rejected and changes nothing.
NonNegativity ==
    /\ [](\A i \in 1..Len(stock) : stock[i].quantity \in Nat)
    /\ [][(NegativeStockEdit \/ Overdraw) =>
             last'.res.status \in {400, 404} /\ stock' = stock /\ transfers' = transfers]_vars

\* An overdrawing transfer was refused, with an earlier transfer out of the
\* same source on record.
NonNegativityWitness ==
    /\ last.op = "transfer"
    /\ last.res.error = "Insufficient stock"
    /\ Len(transfers) > 0
    /\ transfers[Len(transfers)].productId = ReqProduct(last.req)
    /\ transfers[Len(transfers)].fromWarehouseId = ReqFrom(last.req)

\* No pair (productId, warehouseId) has two records.
UniquePairs(stk) ==
    \A i, j \in 1..Len(stk) :
        (stk[i].productId = stk[j].productId /\ stk[i].warehouseId = stk[j].warehouseId)
            => i = j

\* The step serves a valid stock create for a pair that already has a record.
DuplicateCreate ==
    /\ served' = served + 1
    /\ last'.op = "stock.create"
    /\ ValidStock(last'.req, products, warehouses)
    /\ FindStockIndex(stock, ReqProduct(last'.req), parseInt(last'.req.warehouseId).val) # 0

\* The step serves a valid stock update that moves an existing record onto a
\* pair held by another record.
DuplicateUpdate ==
    /\ served' = served + 1
    /\ last'.op = "stock.update"
    /\ LET b == last'.req.body
           i == FindIdIndex(stock, parseInt(last'.req.id).val)
       IN  /\ i # 0
           /\ ValidStockUpdate(b, products, warehouses)
           /\ LET p == IF b.productId = Undefined THEN stock[i].productId
                       ELSE parseInt(b.productId).val
                  w == IF b.warehouseId = Undefined THEN stock[i].warehouseId
                       ELSE parseInt(b.warehouseId).val
              IN  \E j \in 1..Len(stock) :
                      j # i /\ stock[j].productId = p /\ stock[j].warehouseId = w

\* C4: no pair (productId, warehouseId) ever has two stock records, and a
\* stock create or update that would produce a second record for a pair is
\* answered 409 Conflict and changes nothing.
StockUniqueness ==
    /\ []UniquePairs(stock)
    /\ [][(DuplicateCreate \/ DuplicateUpdate) =>
             last'.res.status = 409 /\ stock' = stock /\ transfers' = transfers]_vars

\* An update that would have moved a record onto an occupied pair was refused.
StockUniquenessWitness ==
    /\ last.op = "stock.update"
    /\ last.res.status = 409
    /\ last.req.body.productId # Undefined

\* C10: a successful transfer(p, A, B, q) appends exactly one Transfer record
\* (p, A, B, q, "completed") with A # B and q > 0, creates the record (p, B)
\* with quantity q when there was none, and changes no stock record other
\* than (p, A) and (p, B) and no earlier Transfer record.
TransferEffect ==
    [][TransferSucceeds =>
          LET b == last'.req
              p == ReqProduct(b)
              A == ReqFrom(b)
              B == ReqTo(b)
              q == ReqQuantity(b)
              t == transfers'[Len(transfers')]
              created == FindStockIndex(stock, p, B) = 0
          IN  /\ Len(transfers') = Len(transfers) + 1
              /\ SubSeq(transfers', 1, Len(transfers)) = transfers
              /\ t.productId = p /\ t.fromWarehouseId = A /\ t.toWarehouseId = B
              /\ t.quantity = q /\ t.status = "completed"
              /\ A # B /\ q > 0
              /\ t.id \notin Ids(transfers)
              /\ Len(stock') = Len(stock) + (IF created THEN 1 ELSE 0)
              /\ created =>
                    LET r == stock'[Len(stock')]
                    IN  r.productId = p /\ r.warehouseId = B /\ r.quantity = q
                        /\ r.id \notin Ids(stock)
              /\ \A i \in 1..Len(stock) :
                    /\ stock'[i].id = stock[i].id
                    /\ stock'[i].productId = stock[i].productId
                    /\ stock'[i].warehouseId = stock[i].warehouseId
                    /\ (stock[i].productId # p \/ stock[i].warehouseId \notin {A, B})
                          => stock'[i] = stock[i]
      ]_vars

\* A transfer succeeded into a warehouse that held no record of the product,
\* with an earlier Transfer record and another product's record in the store.
TransferEffectWitness ==
    /\ last.op = "transfer"
    /\ last.res.status = 201
    /\ Len(transfers) >= 2
    /\ LET r == stock[Len(stock)]
       IN  /\ r.productId = ReqProduct(last.req)
           /\ r.warehouseId = ReqTo(last.req)
           /\ r.quantity = ReqQuantity(last.req)
           /\ r.id = Len(stock)
    /\ \E i \in 1..Len(stock) : stock[i].productId # ReqProduct(last.req)

\* ------------------------------------------- the preconditions of a transfer

\* A raw value that denotes a positive integer: decimal digits only, not zero.
IsPositiveInteger(raw) ==
    /\ raw # Undefined
    /\ raw # <<>>
    /\ \A i \in 1..Len(raw) : raw[i] \in DigitChars
    /\ DigitPrefix(raw, 0) > 0

\* 1: a field is missing, or an id is no number.
MissingOrIllTyped(body) ==
    \/ Undefined \in {body.productId, body.fromWarehouseId, body.toWarehouseId, body.quantity}
    \/ parseInt(body.productId).nan
    \/ parseInt(body.fromWarehouseId).nan
    \/ parseInt(body.toWarehouseId).nan

\* 2: source and destination are the same warehouse.
SameWarehouse(body) ==
    /\ ~parseInt(body.fromWarehouseId).nan
    /\ ~parseInt(body.toWarehouseId).nan
    /\ ReqFrom(body) = ReqTo(body)

\* 3, as the handler reads the quantity: no number, or not above zero.
NonPositiveQuantity(body) ==
    body.quantity # Undefined /\ (parseInt(body.quantity).nan \/ ReqQuantity(body) <= 0)

\* 4: the product does not exist.
UnknownProduct(body) == ReqProduct(body) \notin Ids(products)

\* 5: a warehouse does not exist.
UnknownWarehouse(body) ==
    ReqFrom(body) \notin Ids(warehouses) \/ ReqTo(body) \notin Ids(warehouses)

\* 6: the source holds no record of the product, or fewer units than asked.
ShortSource(body) ==
    \/ FindStockIndex(stock, ReqProduct(body), ReqFrom(body)) = 0
    \/ Quantity(stock, ReqProduct(body), ReqFrom(body)) < ReqQuantity(body)

Unchanged == stock' = stock /\ transfers' = transfers

ErrorClass(res) ==
    CASE res.status = 201 -> 0
      [] res.message \in {"Product ID is required.", "Source warehouse ID is required.",
                          "Destination warehouse ID is required.", "Quantity is required.",
                          "Product ID must be a valid number.",
                          "Warehouse IDs must be valid numbers."} -> 1
      [] res.message = "Source and destination warehouses must be different." -> 2
      [] res.message = "Quantity must be a positive number." -> 3
      [] res.message = "The specified product does not exist." -> 4
      [] res.message \in {"Source warehouse does not exist.",
                          "Destination warehouse does not exist."} -> 5
      [] res.error \in {"No stock available", "Insufficient stock"} -> 6
      [] OTHER -> 7

\* The preconditions a request violates, the third one as the claim states it.
Violated(body) ==
    {k \in 1..6 :
        \/ k = 1 /\ MissingOrIllTyped(body)
        \/ k = 2 /\ SameWarehouse(body)
        \/ k = 3 /\ body.quantity # Undefined /\ ~IsPositiveInteger(body.quantity)
        \/ k = 4 /\ UnknownProduct(body)
        \/ k = 5 /\ UnknownWarehouse(body)
        \/ k = 6 /\ ShortSource(body)}

\* The same, the third one as the handler reads the quantity.
ViolatedAsParsed(body) ==
    {k \in 1..6 :
        \/ k = 1 /\ MissingOrIllTyped(body)
        \/ k = 2 /\ SameWarehouse(body)
        \/ k = 3 /\ NonPositiveQuantity(body)
        \/ k = 4 /\ UnknownProduct(body)
        \/ k = 5 /\ UnknownWarehouse(body)
        \/ k = 6 /\ ShortSource(body)}

SetMin(S) == CHOOSE m \in S : \A x \in S : m <= x

\* C7: a transfer request that violates several preconditions is answered
\* with the error of the earliest one in the order 1 missing or ill-typed
\* field, 2 same warehouse, 3 quantity not a positive integer, 4 unknown
\* product, 5 unknown warehouse, 6 insufficient source stock.
ValidationOrder ==
    [][(TransferServed /\ Cardinality(Violated(last'.req)) >= 2) =>
          ErrorClass(last'.res) = SetMin(Violated(last'.req))]_vars

\* The order of the checks alone, with the quantity taken as parseInt reads it:
\* every violating request gets the error of its earliest violated check.
ValidationOrderAsParsed ==
    [][(TransferServed /\ ViolatedAsParsed(last'.req) # {}) =>
          ErrorClass(last'.res) = SetMin(ViolatedAsParsed(last'.req))]_vars

\* The request passes the checks 1 to 5 and asks for more than the source holds.
AsksTooMuch(body) ==
    /\ ViolatedAsParsed(body) = {6}

PositiveIntegerQuantityOnly ==
    [][TransferServed =>
          /\ last'.res.status = 201
                => /\ IsPositiveInteger(last'.req.quantity)
                   /\ transfers'[Len(transfers')].quantity = DigitPrefix(last'.req.quantity, 0)
          /\ (last'.req.quantity # Undefined /\ ~IsPositiveInteger(last'.req.quantity))
                => (last'.res.status \in {400, 404} /\ Unchanged)
      ]_vars

\* ------------------------------------ SpecFault: statements that can throw

Faults == {"notes", "stock", "transfers"}

NextFault ==
    \/ Next
    \/ \E body \in TransferRequests, fault \in Faults :
          Serve /\ CreateTransfer(body, fault)

SpecFault == Init /\ [][NextFault]_vars

\* C6: the stock update and the Transfer record of one transfer are saved
\* together or not at all, and a transfer request that ends with 500 Internal
\* Server Error leaves the saved stock quantities as they were.
TransferAtomicity ==
    [][TransferServed =>
          /\ (stock' # stock) <=> (transfers' # transfers)
          /\ last'.res.status = 500 => stock' = stock
      ]_vars

\* ------------------ SpecConcurrent: two transfer requests, reads and writes
\* of whole collections interleaved

Clients == {1, 2}

ConcurrentRequests ==
    { [productId |-> <<"1">>, fromWarehouseId |-> <<"1">>, toWarehouseId |-> <<"2">>,
       quantity |-> <<"1">>],
      [productId |-> <<"1">>, fromWarehouseId |-> <<"1">>, toWarehouseId |-> <<"2">>,
       quantity |-> <<"2">>],
      [productId |-> <<"1">>, fromWarehouseId |-> <<"2">>, toWarehouseId |-> <<"1">>,
       quantity |-> <<"1">>],
      [productId |-> <<"2">>, fromWarehouseId |-> <<"1">>, toWarehouseId |-> <<"2">>,
       quantity |-> <<"1">>] }

ConcurrentStock ==
    <<StockRecord(1, 1, 1, 2), StockRecord(2, 1, 2, 1), StockRecord(3, 2, 1, 1)>>

IdleClient ==
    [pc |-> "idle", body |-> <<>>, products |-> <<>>, warehouses |-> <<>>,
     stock |-> <<>>, transfers |-> <<>>, res |-> Response(0, "", "")]

InitConcurrent ==
    /\ products = <<Product1, Product2>>
    /\ warehouses = <<[id |-> 1], [id |-> 2]>>
    /\ stock = ConcurrentStock
    /\ transfers = <<>>
    /\ last = NoRequest
    /\ served = 0
    /\ clients = [c \in Clients |-> IdleClient]
    /\ alerts = <<>>
    /\ args = <<>>
    /\ calls = <<>>

\* The request arrives and its body is checked.
Receive(c, body) ==
    /\ clients[c].pc = "idle"
    /\ clients' = [clients EXCEPT ![c] =
          IF ValidateTransferBody(body) # ""
          THEN [@ EXCEPT !.pc = "done", !.body = body,
                         !.res = Response(400, "Validation failed", ValidateTransferBody(body))]
          ELSE [@ EXCEPT !.pc = "readProducts", !.body = body]]
    /\ UNCHANGED <<products, warehouses, stock, transfers, last, served, alerts, args, calls>>

\* const products = readJsonFile('products.json')
ReadProducts(c) ==
    /\ clients[c].pc = "readProducts"
    /\ clients' = [clients EXCEPT ![c].pc = "readWarehouses", ![c].products = products]
    /\ UNCHANGED <<products, warehouses, stock, transfers, last, served, alerts, args, calls>>

\* const warehouses = readJsonFile('warehouses.json')
ReadWarehouses(c) ==
    /\ clients[c].pc = "readWarehouses"
    /\ clients' = [clients EXCEPT ![c].pc = "readStock", ![c].warehouses = warehouses]
    /\ UNCHANGED <<products, warehouses, stock, transfers, last, served, alerts, args, calls>>

\* let stock = readJsonFile('stock.json')
ReadStock(c) ==
    /\ clients[c].pc = "readStock"
    /\ clients' = [clients EXCEPT ![c].pc = "readTransfers", ![c].stock = stock]
    /\ UNCHANGED <<products, warehouses, stock, transfers, last, served, alerts, args, calls>>

\* let transfers = readJsonFile('transfers.json'), then the checks and the
\* updates of the two arrays in memory, up to the first write.
ReadTransfers(c) ==
    /\ clients[c].pc = "readTransfers"
    /\ LET me == clients[c]
           out == PostTransfer(me.body, me.products, me.warehouses, me.stock,
                               transfers, "none")
       IN  clients' = [clients EXCEPT ![c] =
              IF out.res.status = 201
              THEN [@ EXCEPT !.pc = "writeStock", !.stock = out.stock,
                             !.transfers = out.transfers, !.res = out.res]
              ELSE [@ EXCEPT !.pc = "done", !.res = out.res]]
    /\ UNCHANGED <<products, warehouses, stock, transfers, last, served, alerts, args, calls>>

\* writeJsonFile('stock.json', stock)
WriteStock(c) ==
    /\ clients[c].pc = "writeStock"
    /\ stock' = clients[c].stock
    /\ clients' = [clients EXCEPT ![c].pc = "writeTransfers"]
    /\ UNCHANGED <<products, warehouses, transfers, last, served, alerts, args, calls>>

\* writeJsonFile('transfers.json', transfers), then the 201 response
WriteTransfers(c) ==
    /\ clients[c].pc = "writeTransfers"
    /\ transfers' = clients[c].transfers
    /\ clients' = [clients EXCEPT ![c].pc = "done"]
    /\ UNCHANGED <<products, warehouses, stock, last, served, alerts, args, calls>>

NextConcurrent ==
    \E c \in Clients :
        \/ \E body \in ConcurrentRequests : Receive(c, body)
        \/ ReadProducts(c)
        \/ ReadWarehouses(c)
        \/ ReadStock(c)
        \/ ReadTransfers(c)
        \/ WriteStock(c)
        \/ WriteTransfers(c)

SpecConcurrent == InitConcurrent /\ [][NextConcurrent]_vars

\* The two requests served one after the other, first then second: the
\* collections left on disk and the two responses.
SerialRun(first, second) ==
    LET one == PostTransfer(first, products, warehouses, ConcurrentStock, <<>>, "none")
        two == PostTransfer(second, products, warehouses, one.stock, one.transfers, "none")
    IN  [stock |-> two.stock, transfers |-> two.transfers,
         firstRes |-> one.res, secondRes |-> two.res]

\* C5: two transfer requests that run concurrently leave stock.json and
\* transfers.json as serving them one after the other in some order does, with
\* the responses of that order: no successful transfer loses its debit, its
\* credit or its Transfer record.
SerializedTransfers ==
    (\A c \in Clients : clients[c].pc = "done") =>
        \E c \in Clients :
            LET d == CHOOSE x \in Clients : x # c
                run == SerialRun(clients[c].body, clients[d].body)
            IN  /\ stock = run.stock
                /\ transfers = run.transfers
                /\ clients[c].res = run.firstRes
                /\ clients[d].res = run.secondRes

\* ------------------------------------ POST /api/products, PUT /api/products/[id]

\* The text fields of a product or warehouse body (sku, name, category; code,
\* name, location) as the handler's checks see them: "ok" passes them, "bad"
\* fails the validator, "taken" passes it with a sku or code another record has.
TextInputs == {"ok", "bad", "taken"}

\* parseFloat(data.unitCost), for values written without a fraction
parseFloat(raw) == parseInt(raw)

\* validateProduct(req.body)
ValidProduct(body) ==
    /\ body.text # "bad"
    /\ body.unitCost # Undefined
    /\ ~parseFloat(body.unitCost).nan /\ parseFloat(body.unitCost).val >= 0
    /\ body.reorderPoint # Undefined
    /\ ~parseInt(body.reorderPoint).nan /\ parseInt(body.reorderPoint).val >= 0

PostProduct(body, prods) ==
    IF ~ValidProduct(body)
    THEN [res |-> Response(400, "Validation failed", ""), products |-> prods]
    ELSE IF body.text = "taken" /\ Len(prods) > 0
    THEN [res |-> Response(409, "Conflict", "A product with this SKU already exists"),
          products |-> prods]
    ELSE [res |-> Response(201, "", ""),
          products |-> Append(prods, [id |-> NextId(prods),
                                      reorderPoint |-> parseInt(body.reorderPoint).val,
                                      unitCost |-> parseFloat(body.unitCost).val])]

\* validateProductUpdate(req.body)
ValidProductUpdate(body) ==
    /\ body.text # "bad"
    /\ body.unitCost # Undefined
          => (~parseFloat(body.unitCost).nan /\ parseFloat(body.unitCost).val >= 0)
    /\ body.reorderPoint # Undefined
          => (~parseInt(body.reorderPoint).nan /\ parseInt(body.reorderPoint).val >= 0)

PutProduct(id, body, prods) ==
    LET parsedId == parseInt(id)
        index == FindIdIndex(prods, parsedId.val)
    IN  IF parsedId.nan
        THEN [res |-> Response(400, "Bad Request", "Invalid product ID"), products |-> prods]
        ELSE IF index = 0
        THEN [res |-> Response(404, "Not Found", "Product not found"), products |-> prods]
        ELSE IF ~ValidProductUpdate(body)
        THEN [res |-> Response(400, "Validation failed", ""), products |-> prods]
        ELSE IF body.text = "taken" /\ Len(prods) > 1
        THEN [res |-> Response(409, "Conflict", "A product with this SKU already exists"),
              products |-> prods]
        ELSE [res |-> Response(200, "", ""),
              products |-> [prods EXCEPT ![index] =
                  [id |-> parsedId.val,
                   unitCost |-> IF body.unitCost # Undefined
                                THEN parseFloat(body.unitCost).val ELSE @.unitCost,
                   reorderPoint |-> IF body.reorderPoint # Undefined
                                    THEN parseInt(body.reorderPoint).val
                                    ELSE @.reorderPoint]]]

\* -------------------------------- POST /api/warehouses, PUT /api/warehouses/[id]

PostWarehouse(body, whs) ==
    IF body.text = "bad"
    THEN [res |-> Response(400, "Validation failed", ""), warehouses |-> whs]
    ELSE IF body.text = "taken" /\ Len(whs) > 0
    THEN [res |-> Response(409, "Conflict", "A warehouse with this code already exists"),
          warehouses |-> whs]
    ELSE [res |-> Response(201, "", ""), warehouses |-> Append(whs, [id |-> NextId(whs)])]

\* The fields an update writes (code, name, location, updatedAt) are not part
\* of the warehouse records kept here, which are identified by id alone.
PutWarehouse(id, body, whs) ==
    LET parsedId == parseInt(id)
        index == FindIdIndex(whs, parsedId.val)
    IN  IF parsedId.nan
        THEN [res |-> Response(400, "Bad Request", "Invalid warehouse ID"), warehouses |-> whs]
        ELSE IF index = 0
        THEN [res |-> Response(404, "Not Found", "Warehouse not found"), warehouses |-> whs]
        ELSE IF body.text = "bad"
        THEN [res |-> Response(400, "Validation failed", ""), warehouses |-> whs]
        ELSE IF body.text = "taken" /\ Len(whs) > 1
        THEN [res |-> Response(409, "Conflict", "A warehouse with this code already exists"),
              warehouses |-> whs]
        ELSE [res |-> Response(200, "", ""),
              warehouses |-> [whs EXCEPT ![index] = [id |-> parsedId.val]]]

\* ------------------------------------------------------------ POST /api/alerts

\* Timestamps are the number of the request being served; null is 0.
Null == 0

AlertActions == {"acknowledge", "unacknowledge", "dismiss", "undismiss", "update_notes"}

AlertResponse(status, error, persisted, alert) ==
    [status |-> status, error |-> error, persisted |-> persisted, alert |-> alert]

\* Mutant of FindAlertIndex: no record is ever found.
FindAlertIndexNone(alrts, p) == 0

\* alertRecords.findIndex((a) => a.productId === parseInt(productId))
FindAlertIndex(alrts, p) ==
    IF \E i \in 1..Len(alrts) : alrts[i].productId = p
    THEN CHOOSE i \in 1..Len(alrts) :
            /\ alrts[i].productId = p
            /\ \A j \in 1..(i - 1) : alrts[j].productId # p
    ELSE 0

NewAlertRecord(alrts, p, now) ==
    [id |-> NextId(alrts), productId |-> p, acknowledged |-> FALSE,
     acknowledgedAt |-> Null, dismissed |-> FALSE, dismissedAt |-> Null,
     notes |-> "", createdAt |-> now, updatedAt |-> Null]

\* Mutant of ApplyAlertAction: acknowledge flips the flag.
ApplyAlertActionToggle(rec, action, notes, now) ==
    LET changed ==
          CASE action = "acknowledge" ->
                  [rec EXCEPT !.acknowledged = ~@, !.acknowledgedAt = IF @ = Null THEN now ELSE Null]
            [] action = "unacknowledge" ->
                  [rec EXCEPT !.acknowledged = FALSE, !.acknowledgedAt = Null]
            [] action = "dismiss" ->
                  [rec EXCEPT !.dismissed = TRUE, !.dismissedAt = now]
            [] action = "undismiss" ->
                  [rec EXCEPT !.dismissed = FALSE, !.dismissedAt = Null]
            [] OTHER ->
                  [rec EXCEPT !.notes = IF notes = Undefined THEN "" ELSE notes]
    IN  [changed EXCEPT !.updatedAt = now]

\* Mutant of ApplyAlertAction: acknowledge also takes back a dismissal.
ApplyAlertActionClearsDismissed(rec, action, notes, now) ==
    LET changed ==
          CASE action = "acknowledge" ->
                  [rec EXCEPT !.acknowledged = TRUE, !.acknowledgedAt = now,
                              !.dismissed = FALSE, !.dismissedAt = Null]
            [] action = "unacknowledge" ->
                  [rec EXCEPT !.acknowledged = FALSE, !.acknowledgedAt = Null]
            [] action = "dismiss" ->
                  [rec EXCEPT !.dismissed = TRUE, !.dismissedAt = now]
            [] action = "undismiss" ->
                  [rec EXCEPT !.dismissed = FALSE, !.dismissedAt = Null]
            [] OTHER ->
                  [rec EXCEPT !.notes = IF notes = Undefined THEN "" ELSE notes]
    IN  [changed EXCEPT !.updatedAt = now]

\* switch (action), then the updatedAt stamp
ApplyAlertAction(rec, action, notes, now) ==
    LET changed ==
          CASE action = "acknowledge" ->
                  [rec EXCEPT !.acknowledged = TRUE, !.acknowledgedAt = now]
            [] action = "unacknowledge" ->
                  [rec EXCEPT !.acknowledged = FALSE, !.acknowledgedAt = Null]
            [] action = "dismiss" ->
                  [rec EXCEPT !.dismissed = TRUE, !.dismissedAt = now]
            [] action = "undismiss" ->
                  [rec EXCEPT !.dismissed = FALSE, !.dismissedAt = Null]
            [] OTHER ->
                  [rec EXCEPT !.notes = IF notes = Undefined THEN "" ELSE notes]
    IN  [changed EXCEPT !.updatedAt = now]

\* Mutant of PostAlert: the record created for the product is saved before
\* the action is looked at.
PostAlertKeepsNewRecord(body, prods, alrts, now, writable) ==
    LET p == parseInt(body.productId)
        found == FindAlertIndex(alrts, p.val)
        records == IF found = 0 THEN Append(alrts, NewAlertRecord(alrts, p.val, now))
                   ELSE alrts
        alertIndex == IF found = 0 THEN Len(records) ELSE found
        updated == [records EXCEPT ![alertIndex] =
                       ApplyAlertAction(@, body.action, body.notes, now)]
    IN  IF body.productId = Undefined
        THEN [res |-> AlertResponse(400, "Missing product ID", FALSE, <<>>), alerts |-> alrts]
        ELSE IF p.nan \/ FindIdIndex(prods, p.val) = 0
        THEN [res |-> AlertResponse(404, "Product not found", FALSE, <<>>), alerts |-> alrts]
        ELSE IF body.action \notin AlertActions
        THEN [res |-> AlertResponse(400, "Invalid action", FALSE, <<>>), alerts |-> records]
        ELSE [res |-> AlertResponse(200, "", writable, updated[alertIndex]),
              alerts |-> IF writable THEN updated ELSE alrts]

\* writable: whether fs.writeFileSync of alerts.json succeeds
PostAlert(body, prods, alrts, now, writable) ==
    LET p == parseInt(body.productId)
        found == FindAlertIndex(alrts, p.val)
        records == IF found = 0 THEN Append(alrts, NewAlertRecord(alrts, p.val, now))
                   ELSE alrts
        alertIndex == IF found = 0 THEN Len(records) ELSE found
        updated == [records EXCEPT ![alertIndex] =
                       ApplyAlertAction(@, body.action, body.notes, now)]
    IN  IF body.productId = Undefined
        THEN [res |-> AlertResponse(400, "Missing product ID", FALSE, <<>>), alerts |-> alrts]
        ELSE IF p.nan \/ FindIdIndex(prods, p.val) = 0
        THEN [res |-> AlertResponse(404, "Product not found", FALSE, <<>>), alerts |-> alrts]
        ELSE IF body.action \notin AlertActions
        THEN [res |-> AlertResponse(400, "Invalid action", FALSE, <<>>), alerts |-> alrts]
        ELSE [res |-> AlertResponse(200, "", writable, updated[alertIndex]),
              alerts |-> IF writable THEN updated ELSE alrts]

\* -------------------------------------------------- requests, one per action

CreateProduct(body) ==
    LET out == PostProduct(body, products)
    IN  /\ products' = out.products
        /\ last' = [op |-> "product.create", req |-> body, res |-> out.res]
        /\ UNCHANGED <<warehouses, stock, transfers, clients, alerts, args, calls>>

UpdateProduct(id, body) ==
    LET out == PutProduct(id, body, products)
    IN  /\ products' = out.products
        /\ last' = [op |-> "product.update", req |-> [id |-> id, body |-> body], res |-> out.res]
        /\ UNCHANGED <<warehouses, stock, transfers, clients, alerts, args, calls>>

CreateWarehouse(body) ==
    LET out == PostWarehouse(body, warehouses)
    IN  /\ warehouses' = out.warehouses
        /\ last' = [op |-> "warehouse.create", req |-> body, res |-> out.res]
        /\ UNCHANGED <<products, stock, transfers, clients, alerts, args, calls>>

UpdateWarehouse(id, body) ==
    LET out == PutWarehouse(id, body, warehouses)
    IN  /\ warehouses' = out.warehouses
        /\ last' = [op |-> "warehouse.update", req |-> [id |-> id, body |-> body], res |-> out.res]
        /\ UNCHANGED <<products, stock, transfers, clients, alerts, args, calls>>

AlertAction(body, writable) ==
    LET out == PostAlert(body, products, alerts, served + 1, writable)
    IN  /\ alerts' = out.alerts
        /\ last' = [op |-> "alert", req |-> body, res |-> out.res]
        /\ UNCHANGED <<products, warehouses, stock, transfers, clients, args, calls>>

\* ---------------------------- SpecLedger: every handler that writes a data file

LedgerTransfers ==
    [productId : ExistingIdInputs, fromWarehouseId : ExistingIdInputs,
     toWarehouseId : ExistingIdInputs, quantity : {<<"1">>}]

LedgerStockUpdates ==
    [productId : {Undefined}, warehouseId : {Undefined, <<"2">>},
     quantity : {Undefined, <<"0">>}]

ProductBodies ==
    [text : {"ok", "taken"}, unitCost : {<<"1">>}, reorderPoint : {<<"0">>, <<"3">>}]

ProductUpdates ==
    [text : {"ok"}, unitCost : {Undefined}, reorderPoint : {Undefined, <<"1">>, <<"-", "1">>}]

WarehouseBodies == [text : TextInputs]

LedgerStockRequests ==
    [productId : ExistingIdInputs, warehouseId : ExistingIdInputs,
     quantity : {<<"0">>, <<"1">>}]

LedgerAlertRequests ==
    [productId : {<<"1">>, <<"3">>}, action : {"acknowledge", "snooze"},
     notes : {Undefined}]

NextLedger ==
    \/ \E body \in LedgerTransfers : Serve /\ CreateTransfer(body, "none")
    \/ \E body \in LedgerStockRequests : Serve /\ CreateStock(body)
    \/ \E id \in PathIds, body \in LedgerStockUpdates : Serve /\ UpdateStock(id, body)
    \/ \E id \in PathIds : Serve /\ RemoveStock(id)
    \/ \E id \in PathIds : Serve /\ RemoveTransfer(id)
    \/ \E id \in ExistingIdInputs, cascade \in CascadeInputs : Serve /\ RemoveProduct(id, cascade)
    \/ \E id \in ExistingIdInputs, cascade \in CascadeInputs : Serve /\ RemoveWarehouse(id, cascade)
    \/ \E body \in ProductBodies : Serve /\ CreateProduct(body)
    \/ \E id \in ExistingIdInputs, body \in ProductUpdates : Serve /\ UpdateProduct(id, body)
    \/ \E body \in WarehouseBodies : Serve /\ CreateWarehouse(body)
    \/ \E id \in ExistingIdInputs, body \in WarehouseBodies : Serve /\ UpdateWarehouse(id, body)
    \/ \E body \in LedgerAlertRequests, writable \in BOOLEAN : Serve /\ AlertAction(body, writable)

SpecLedger == Init /\ [][NextLedger]_vars

\* --------------------------------------------------- claims on the ledger

\* The step serves a DELETE /api/transfers/[id] that answers 204.
TransferDeleted ==
    served' = served + 1 /\ last'.op = "transfer.delete" /\ last'.res.status = 204

\* C11: deleting a Transfer removes exactly the record with that id and leaves
\* every stock record as it was, and no request changes a field of a Transfer
\* record that exists before and after it.
TransferAuditOnly ==
    [][/\ TransferDeleted =>
            LET id == parseInt(last'.req.id).val
            IN  /\ id \in Ids(transfers)
                /\ Ids(transfers') = Ids(transfers) \ {id}
                /\ Len(transfers') = Len(transfers) - 1
                /\ stock' = stock
       /\ \A i \in 1..Len(transfers), j \in 1..Len(transfers') :
            transfers'[j].id = transfers[i].id => transfers'[j] = transfers[i]
      ]_vars

\* A transfer moved one unit of product 1 from warehouse 1 to warehouse 2, its
\* record was deleted, and the unit is still at warehouse 2.
TransferAuditOnlyWitness ==
    /\ last.op = "transfer.delete"
    /\ last.res.status = 204
    /\ transfers = <<>>
    /\ Len(stock) = 3
    /\ Quantity(stock, 1, 1) = 1
    /\ Quantity(stock, 1, 2) = 1

StockEdits == {"stock.create", "stock.update", "stock.delete"}

\* C12 as stated: the total of a product that exists before and after a step
\* changes only in steps that create, update or delete a stock record.
LedgerChangesOnlyByStockEdits ==
    [][\A p \in Ids(products) \cap Ids(products') :
          TotalQuantity(stock', p) # TotalQuantity(stock, p)
             => last'.op \in StockEdits
      ]_vars

\* C12, amended: the total of a product that exists before and after a step
\* changes only in steps that create, update or delete a stock record and in
\* warehouse deletions with cascade=true, which take away what the product
\* holds at the deleted warehouse; transfers, transfer deletions, alert
\* actions, product requests, warehouse creations and updates and warehouse
\* deletions without cascade leave it unchanged.
LedgerChanges ==
    [][\A p \in Ids(products) \cap Ids(products') :
          TotalQuantity(stock', p) # TotalQuantity(stock, p)
             => \/ last'.op \in StockEdits
                \/ /\ last'.op = "warehouse.delete"
                   /\ last'.req.cascade = "true"
                   /\ last'.res.status = 204
                   /\ TotalQuantity(stock', p) =
                        TotalQuantity(stock, p)
                          - Quantity(stock, p, parseInt(last'.req.id).val)
      ]_vars

\* Warehouse 1 was deleted with cascade=true and product 1, which held all
\* its units there, is left with none.
LedgerChangesWitness ==
    /\ last.op = "warehouse.delete"
    /\ last.req.id = <<"1">>
    /\ last.req.cascade = "true"
    /\ last.res.status = 204
    /\ served = 1
    /\ 1 \in Ids(products)
    /\ TotalQuantity(stock, 1) = 0

\* The step serves a DELETE of a product or of a warehouse.
DeleteServed(op) == served' = served + 1 /\ last'.op = op

\* The records of stk that reference the product (field productId) or the
\* warehouse (field warehouseId) with this id.
Referencing(stk, field, id) == {i \in 1..Len(stk) : stk[i][field] = id}

\* What the contract asks of one deletion of an existing product or warehouse.
CascadeContract(coll, field, id, cascade, status, collAfter, stockAfter) ==
    LET refs == Referencing(stock, field, id)
        kept(r) == r[field] # id
    IN  /\ (refs # {} /\ cascade # "true")
            => /\ status = 409
               /\ collAfter = coll
               /\ stockAfter = stock
        /\ cascade = "true"
            => /\ status = 204
               /\ Ids(collAfter) = Ids(coll) \ {id}
               /\ Len(collAfter) = Len(coll) - 1
               /\ stockAfter = SelectSeq(stock, kept)

\* C13: deleting a product (or warehouse) that a stock record references
\* fails with 409 Conflict and changes no collection unless cascade=true is
\* given; with cascade=true the product (or warehouse) is removed together
\* with exactly the stock records that reference it.
CascadeDelete ==
    [][/\ (DeleteServed("product.delete")
             /\ parseInt(last'.req.id).val \in Ids(products))
          => /\ CascadeContract(products, "productId", parseInt(last'.req.id).val,
                                last'.req.cascade, last'.res.status, products', stock')
             /\ UNCHANGED <<warehouses, transfers, alerts, args, calls>>
       /\ (DeleteServed("warehouse.delete")
             /\ parseInt(last'.req.id).val \in Ids(warehouses))
          => /\ CascadeContract(warehouses, "warehouseId", parseInt(last'.req.id).val,
                                last'.req.cascade, last'.res.status, warehouses', stock')
             /\ UNCHANGED <<products, transfers, alerts, args, calls>>
      ]_vars

\* Product 1 was deleted with cascade=true: its records are gone and a record
\* of product 2 is still there.
CascadeDeleteWitness ==
    /\ last.op = "product.delete"
    /\ last.req.cascade = "true"
    /\ last.res.status = 204
    /\ Ids(products) = {2}
    /\ Len(stock) = 1
    /\ stock[1].productId = 2

\* ------------------------------------------- stock status, reorder advice

MaxStock == 8

MaxReorderPoint == 4

MaxUnitCost == 2

MaxCalls == 2

\* quantity / reorderPoint as JavaScript computes it for integers >= 0: NaN
\* for 0 / 0, Infinity for a positive quantity over 0, the quotient otherwise.
\* The quotient is kept as the pair it comes from. Comparing it with 0.5, 1
\* or 3 gives what comparing the exact fractions gives: these three numbers
\* are doubles, division rounds to the nearest double and preserves order, and
\* a quotient of integers below 2^53 that differs from one of them differs by
\* more than the rounding error.
Ratio(quantity, reorderPoint) ==
    IF reorderPoint # 0 THEN [kind |-> "finite", num |-> quantity, den |-> reorderPoint]
    ELSE IF quantity = 0 THEN [kind |-> "NaN", num |-> 0, den |-> 0]
    ELSE [kind |-> "Infinity", num |-> quantity, den |-> 0]

\* ratio === 0
RatioIsZero(ratio) == ratio.kind = "finite" /\ ratio.num = 0

\* ratio < percent / 100; every comparison with NaN is false
RatioBelow(ratio, percent) ==
    ratio.kind = "finite" /\ ratio.num * 100 < percent * ratio.den

\* ratio > percent / 100
RatioAbove(ratio, percent) ==
    \/ ratio.kind = "Infinity"
    \/ ratio.kind = "finite" /\ ratio.num * 100 > percent * ratio.den

\* The literals 0.5, 1 and 3 of the three getStockStatus functions, in percent.
CriticalBelow == 50

LowBelow == 100

OverstockedAbove == 300

\* Mutant of getStockStatus: critical below a quarter of the reorder point.
getStockStatusQuarter(quantity, reorderPoint) ==
    LET ratio == Ratio(quantity, reorderPoint)
    IN  IF RatioIsZero(ratio)
        THEN [status |-> "out", label |-> "Out of Stock", severity |-> 4]
        ELSE IF RatioBelow(ratio, 25)
        THEN [status |-> "critical", label |-> "Critical", severity |-> 3]
        ELSE IF RatioBelow(ratio, LowBelow)
        THEN [status |-> "low", label |-> "Low Stock", severity |-> 2]
        ELSE IF RatioAbove(ratio, OverstockedAbove)
        THEN [status |-> "overstocked", label |-> "Overstocked", severity |-> 0]
        ELSE [status |-> "adequate", label |-> "Adequate", severity |-> 1]

\* utils/helpers.js, used by the status chip, the stock page and the dashboard
getStockStatus(quantity, reorderPoint) ==
    LET ratio == Ratio(quantity, reorderPoint)
    IN  IF RatioIsZero(ratio)
        THEN [status |-> "out", label |-> "Out of Stock", severity |-> 4]
        ELSE IF RatioBelow(ratio, CriticalBelow)
        THEN [status |-> "critical", label |-> "Critical", severity |-> 3]
        ELSE IF RatioBelow(ratio, LowBelow)
        THEN [status |-> "low", label |-> "Low Stock", severity |-> 2]
        ELSE IF RatioAbove(ratio, OverstockedAbove)
        THEN [status |-> "overstocked", label |-> "Overstocked", severity |-> 0]
        ELSE [status |-> "adequate", label |-> "Adequate", severity |-> 1]

\* Mutant of getStockStatusList: the severities of low and adequate swapped.
getStockStatusListSeverity(quantity, reorderPoint) ==
    LET ratio == Ratio(quantity, reorderPoint)
    IN  IF RatioIsZero(ratio)
        THEN [status |-> "out", label |-> "Out of Stock", severity |-> 4,
              priority |-> "critical"]
        ELSE IF RatioBelow(ratio, CriticalBelow)
        THEN [status |-> "critical", label |-> "Critical", severity |-> 3,
              priority |-> "high"]
        ELSE IF RatioBelow(ratio, LowBelow)
        THEN [status |-> "low", label |-> "Low Stock", severity |-> 1,
              priority |-> "medium"]
        ELSE IF RatioAbove(ratio, OverstockedAbove)
        THEN [status |-> "overstocked", label |-> "Overstocked", severity |-> 0,
              priority |-> "low"]
        ELSE [status |-> "adequate", label |-> "Adequate", severity |-> 2,
              priority |-> "none"]

\* pages/api/alerts/index.js, used by GET /api/alerts
getStockStatusList(quantity, reorderPoint) ==
    LET ratio == Ratio(quantity, reorderPoint)
    IN  IF RatioIsZero(ratio)
        THEN [status |-> "out", label |-> "Out of Stock", severity |-> 4,
              priority |-> "critical"]
        ELSE IF RatioBelow(ratio, CriticalBelow)
        THEN [status |-> "critical", label |-> "Critical", severity |-> 3,
              priority |-> "high"]
        ELSE IF RatioBelow(ratio, LowBelow)
        THEN [status |-> "low", label |-> "Low Stock", severity |-> 2,
              priority |-> "medium"]
        ELSE IF RatioAbove(ratio, OverstockedAbove)
        THEN [status |-> "overstocked", label |-> "Overstocked", severity |-> 0,
              priority |-> "low"]
        ELSE [status |-> "adequate", label |-> "Adequate", severity |-> 1,
              priority |-> "none"]

\* Mutant of getStockStatusProduct: overstocked above twice the reorder point.
getStockStatusProductDouble(quantity, reorderPoint) ==
    LET ratio == Ratio(quantity, reorderPoint)
    IN  IF RatioIsZero(ratio)
        THEN [status |-> "out", label |-> "Out of Stock", severity |-> 4,
              priority |-> "critical"]
        ELSE IF RatioBelow(ratio, CriticalBelow)
        THEN [status |-> "critical", label |-> "Critical", severity |-> 3,
              priority |-> "high"]
        ELSE IF RatioBelow(ratio, LowBelow)
        THEN [status |-> "low", label |-> "Low Stock", severity |-> 2,
              priority |-> "medium"]
        ELSE IF RatioAbove(ratio, 200)
        THEN [status |-> "overstocked", label |-> "Overstocked", severity |-> 0,
              priority |-> "low"]
        ELSE [status |-> "adequate", label |-> "Adequate", severity |-> 1,
              priority |-> "none"]

\* pages/api/alerts/[productId].js, used by GET /api/alerts/[productId]
getStockStatusProduct(quantity, reorderPoint) ==
    LET ratio == Ratio(quantity, reorderPoint)
    IN  IF RatioIsZero(ratio)
        THEN [status |-> "out", label |-> "Out of Stock", severity |-> 4,
              priority |-> "critical"]
        ELSE IF RatioBelow(ratio, CriticalBelow)
        THEN [status |-> "critical", label |-> "Critical", severity |-> 3,
              priority |-> "high"]
        ELSE IF RatioBelow(ratio, LowBelow)
        THEN [status |-> "low", label |-> "Low Stock", severity |-> 2,
              priority |-> "medium"]
        ELSE IF RatioAbove(ratio, OverstockedAbove)
        THEN [status |-> "overstocked", label |-> "Overstocked", severity |-> 0,
              priority |-> "low"]
        ELSE [status |-> "adequate", label |-> "Adequate", severity |-> 1,
              priority |-> "none"]

\* Mutant of BelowHalf: half the reorder point counts as below it.
BelowHalfInclusive(currentStock, reorderPoint) ==
    currentStock * 100 <= reorderPoint * CriticalBelow

\* currentStock < reorderPoint * 0.5, both sides in hundredths
BelowHalf(currentStock, reorderPoint) == currentStock * 100 < reorderPoint * CriticalBelow

\* Mutant of NoRecommendationNeeded: advice is also withheld at the reorder
\* point less one.
NoRecommendationNeededEarly(currentStock, reorderPoint) == currentStock + 1 >= reorderPoint

\* if (currentStock >= reorderPoint) return null
NoRecommendationNeeded(currentStock, reorderPoint) == currentStock >= reorderPoint

NoRecommendation == [isNull |-> TRUE]

\* Mutant of getReorderRecommendation: the order brings the stock to the
\* reorder point, not to twice the reorder point.
getReorderRecommendationSingle(currentStock, reorderPoint, unitCost) ==
    IF NoRecommendationNeeded(currentStock, reorderPoint) THEN NoRecommendation
    ELSE LET targetStock == reorderPoint * 2
             recommendedQuantity == reorderPoint - currentStock
             estimatedCost == recommendedQuantity * unitCost
         IN  [isNull |-> FALSE,
              recommendedQuantity |-> recommendedQuantity,
              estimatedCost |-> estimatedCost,
              urgency |-> IF BelowHalf(currentStock, reorderPoint)
                          THEN "critical" ELSE "normal",
              targetStock |-> targetStock]

\* pages/api/alerts/index.js
getReorderRecommendation(currentStock, reorderPoint, unitCost) ==
    IF NoRecommendationNeeded(currentStock, reorderPoint) THEN NoRecommendation
    ELSE LET targetStock == reorderPoint * 2
             recommendedQuantity == targetStock - currentStock
             estimatedCost == recommendedQuantity * unitCost
         IN  [isNull |-> FALSE,
              recommendedQuantity |-> recommendedQuantity,
              estimatedCost |-> estimatedCost,
              urgency |-> IF BelowHalf(currentStock, reorderPoint)
                          THEN "critical" ELSE "normal",
              targetStock |-> targetStock]

\* utils/helpers.js
getReorderRecommendationHelper(currentStock, reorderPoint) ==
    IF NoRecommendationNeeded(currentStock, reorderPoint) THEN NoRecommendation
    ELSE LET targetStock == reorderPoint * 2
             recommendedOrder == targetStock - currentStock
         IN  [isNull |-> FALSE,
              currentStock |-> currentStock,
              reorderPoint |-> reorderPoint,
              recommendedQuantity |-> recommendedOrder,
              urgency |-> IF BelowHalf(currentStock, reorderPoint)
                          THEN "critical" ELSE "normal"]

\* ----------------- SpecClassify: the functions applied to drawn arguments

InitClassify ==
    /\ products = <<Product1, Product2>>
    /\ warehouses = <<[id |-> 1], [id |-> 2]>>
    /\ stock \in InitStocks
    /\ transfers \in InitTransfers
    /\ last = NoRequest
    /\ served = 0
    /\ clients = <<>>
    /\ alerts = <<>>
    /\ args \in [quantity : 0..MaxStock, reorderPoint : 0..MaxReorderPoint,
                 unitCost : 0..MaxUnitCost]
    /\ calls = <<>>

Call(fn, result) ==
    /\ Len(calls) < MaxCalls
    /\ calls' = Append(calls, [fn |-> fn, result |-> result])
    /\ UNCHANGED <<products, warehouses, stock, transfers, last, served, clients, alerts, args>>

StatusChip == Call("helpers.getStockStatus", getStockStatus(args.quantity, args.reorderPoint))

ListStatus == Call("alerts.getStockStatus", getStockStatusList(args.quantity, args.reorderPoint))

ProductStatus ==
    Call("alert.getStockStatus", getStockStatusProduct(args.quantity, args.reorderPoint))

ListRecommendation ==
    Call("alerts.getReorderRecommendation",
         getReorderRecommendation(args.quantity, args.reorderPoint, args.unitCost))

HelperRecommendation ==
    Call("helpers.getReorderRecommendation",
         getReorderRecommendationHelper(args.quantity, args.reorderPoint))

NextClassify ==
    \/ StatusChip
    \/ ListStatus
    \/ ProductStatus
    \/ ListRecommendation
    \/ HelperRecommendation

SpecClassify == InitClassify /\ [][NextClassify]_vars

\* ------------------------------------- claims on status and reorder advice

StatusFunctions ==
    {"helpers.getStockStatus", "alerts.getStockStatus", "alert.getStockStatus"}

RecommendFunctions == {"alerts.getReorderRecommendation", "helpers.getReorderRecommendation"}

StatusCalls == {i \in 1..Len(calls) : calls[i].fn \in StatusFunctions}

RecommendCalls == {i \in 1..Len(calls) : calls[i].fn \in RecommendFunctions}

SeverityOf(status) ==
    CASE status = "out" -> 4
      [] status = "critical" -> 3
      [] status = "low" -> 2
      [] status = "adequate" -> 1
      [] status = "overstocked" -> 0

\* The first matching case of the rule with thresholds 0.5 and 3.
RuleStatus(quantity, reorderPoint) ==
    IF quantity = 0 THEN "out"
    ELSE IF 2 * quantity < reorderPoint THEN "critical"
    ELSE IF quantity < reorderPoint THEN "low"
    ELSE IF quantity > 3 * reorderPoint THEN "overstocked"
    ELSE "adequate"

ZeroReorderPointRule ==
    \A i \in StatusCalls :
        args.reorderPoint = 0 =>
            calls[i].result.status = (IF args.quantity = 0 THEN "out" ELSE "adequate")

\* The bands of the README: out at 0 units, critical below 25% of the reorder
\* point, low below 100%, adequate from 100% to 200%, overstocked above 200%.
DocumentedStatus(quantity, reorderPoint) ==
    IF quantity = 0 THEN "out"
    ELSE IF quantity * 100 < 25 * reorderPoint THEN "critical"
    ELSE IF quantity * 100 < 100 * reorderPoint THEN "low"
    ELSE IF quantity * 100 > 200 * reorderPoint THEN "overstocked"
    ELSE "adequate"

\* C16: the status computed at runtime is the one of the documented bands
\* (critical below 25% of the reorder point, overstocked above 200%).
DocumentedThresholds ==
    \A i \in StatusCalls :
        args.reorderPoint > 0 =>
            calls[i].result.status = DocumentedStatus(args.quantity, args.reorderPoint)

ClassifierConsistency ==
    \A i, j \in StatusCalls :
        /\ calls[i].result.status = calls[j].result.status
        /\ calls[i].result.severity = calls[j].result.severity

\* A quantity between 25% and 50% of the reorder point is critical for the
\* status chip and for GET /api/alerts/[productId].
ClassifierConsistencyWitness ==
    /\ Len(calls) = 2
    /\ calls[1].fn = "helpers.getStockStatus"
    /\ calls[2].fn = "alert.getStockStatus"
    /\ args.quantity * 4 >= args.reorderPoint
    /\ args.quantity * 2 < args.reorderPoint
    /\ calls[1].result.status = "critical"
    /\ calls[2].result.status = "critical"

\* C19: no recommendation is returned exactly when the current stock is at
\* or above the reorder point.
RecommendNullIff ==
    \A i \in RecommendCalls :
        calls[i].result.isNull <=> args.quantity >= args.reorderPoint

\* One unit under the reorder point gets a recommendation.
RecommendNullIffWitness ==
    \E i \in RecommendCalls :
        /\ calls[i].fn = "alerts.getReorderRecommendation"
        /\ args.quantity + 1 = args.reorderPoint
        /\ ~calls[i].result.isNull

\* C20: a recommendation has targetStock = 2 * reorderPoint, currentStock +
\* recommendedQuantity = 2 * reorderPoint, estimatedCost = recommendedQuantity
\* * unitCost, and urgency critical exactly when 2 * currentStock <
\* reorderPoint, normal otherwise.
RecommendationCorrect ==
    \A i \in RecommendCalls :
        LET r == calls[i].result
        IN  ~r.isNull =>
              /\ args.quantity + r.recommendedQuantity = 2 * args.reorderPoint
              /\ r.urgency = (IF 2 * args.quantity < args.reorderPoint
                              THEN "critical" ELSE "normal")
              /\ calls[i].fn = "alerts.getReorderRecommendation"
                    => /\ r.targetStock = 2 * args.reorderPoint
                       /\ r.estimatedCost = r.recommendedQuantity * args.unitCost

\* Reorder point 2, nothing in stock, unit cost 2: order 4 for 8, critical.
RecommendationCorrectWitness ==
    \E i \in RecommendCalls :
        /\ calls[i].fn = "alerts.getReorderRecommendation"
        /\ args.quantity = 0
        /\ args.reorderPoint = 2
        /\ args.unitCost = 2
        /\ calls[i].result.recommendedQuantity = 4
        /\ calls[i].result.estimatedCost = 8
        /\ calls[i].result.urgency = "critical"

\* ---------------------------- GET /api/alerts, GET /api/alerts/[productId]

\* stock.filter((s) => s.productId === product.id)
ProductStock(stk, p) ==
    LET Of(s) == s.productId = p IN SelectSeq(stk, Of)

\* productStock.reduce((sum, s) => sum + s.quantity, 0)
RECURSIVE SumQuantity(_)
SumQuantity(records) ==
    IF records = <<>> THEN 0 ELSE Head(records).quantity + SumQuantity(Tail(records))

\* Mutant of StockTotal: the quantity of the product's first record.
StockTotalFirst(stk, p) ==
    IF ProductStock(stk, p) = <<>> THEN 0 ELSE Head(ProductStock(stk, p)).quantity

\* totalQuantity: the product's stock over all warehouses
StockTotal(stk, p) == SumQuantity(ProductStock(stk, p))

\* One entry of productAlerts. The id, the product's descriptive fields, the
\* warehouse breakdown and lastUpdated are not kept.
ListView(product, stk, alrts) ==
    LET totalQuantity == StockTotal(stk, product.id)
        e == FindAlertIndex(alrts, product.id)
    IN  [productId |-> product.id,
         reorderPoint |-> product.reorderPoint,
         currentStock |-> totalQuantity,
         stockStatus |-> getStockStatusList(totalQuantity, product.reorderPoint),
         reorderRecommendation |->
             getReorderRecommendation(totalQuantity, product.reorderPoint, product.unitCost),
         acknowledged |-> IF e = 0 THEN FALSE ELSE alrts[e].acknowledged,
         acknowledgedAt |-> IF e = 0 THEN Null ELSE alrts[e].acknowledgedAt,
         dismissed |-> IF e = 0 THEN FALSE ELSE alrts[e].dismissed,
         dismissedAt |-> IF e = 0 THEN Null ELSE alrts[e].dismissedAt,
         notes |-> IF e = 0 THEN "" ELSE alrts[e].notes]

\* productAlerts.sort((a, b) => b.stockStatus.severity - a.stockStatus.severity):
\* highest severity first, equal severities in their old order.
RECURSIVE InsertBySeverity(_, _)
InsertBySeverity(view, sorted) ==
    IF sorted = <<>> THEN <<view>>
    ELSE IF Head(sorted).stockStatus.severity >= view.stockStatus.severity
    THEN <<Head(sorted)>> \o InsertBySeverity(view, Tail(sorted))
    ELSE <<view>> \o sorted

RECURSIVE SortBySeverity(_)
SortBySeverity(views) ==
    IF views = <<>> THEN <<>>
    ELSE InsertBySeverity(Head(views), SortBySeverity(Tail(views)))

\* The status list of the query after split(','), <<>> when the query has
\* none; the acknowledged parameter as <<value>>, <<>> when it is undefined.
FilterViews(views, query) ==
    LET ByStatus(a) ==
            query.status = <<>>
               \/ \E k \in 1..Len(query.status) : query.status[k] = a.stockStatus.status
        ByAcknowledged(a) ==
            query.acknowledged = <<>>
               \/ a.acknowledged = (query.acknowledged[1] = "true")
    IN  SelectSeq(SelectSeq(views, ByStatus), ByAcknowledged)

GetAlerts(query, prods, stk, alrts) ==
    LET productAlerts == SortBySeverity([i \in 1..Len(prods) |-> ListView(prods[i], stk, alrts)])
        attention(a) == a.stockStatus.severity >= 2 /\ ~a.acknowledged
    IN  [status |-> 200,
         alerts |-> FilterViews(productAlerts, query),
         summary |-> [total |-> Len(productAlerts),
                      needsAttention |-> Len(SelectSeq(productAlerts, attention))]]

\* GET /api/alerts/[productId]
GetAlert(productId, prods, stk, alrts) ==
    LET parsedProductId == parseInt(productId)
        index == FindIdIndex(prods, parsedProductId.val)
        totalQuantity == StockTotal(stk, parsedProductId.val)
        e == FindAlertIndex(alrts, parsedProductId.val)
    IN  IF parsedProductId.nan \/ index = 0
        THEN [status |-> 404, error |-> "Product not found", alert |-> <<>>]
        ELSE [status |-> 200, error |-> "",
              alert |-> [productId |-> parsedProductId.val,
                         reorderPoint |-> prods[index].reorderPoint,
                         currentStock |-> totalQuantity,
                         stockStatus |->
                             getStockStatusProduct(totalQuantity, prods[index].reorderPoint),
                         acknowledged |-> IF e = 0 THEN FALSE ELSE alrts[e].acknowledged,
                         acknowledgedAt |-> IF e = 0 THEN Null ELSE alrts[e].acknowledgedAt,
                         notes |-> IF e = 0 THEN "" ELSE alrts[e].notes]]

ListAlerts(query) ==
    /\ last' = [op |-> "alerts.list", req |-> query,
                res |-> GetAlerts(query, products, stock, alerts)]
    /\ UNCHANGED <<products, warehouses, stock, transfers, clients, alerts, args, calls>>

ReadAlert(productId) ==
    /\ last' = [op |-> "alert.read", req |-> [productId |-> productId],
                res |-> GetAlert(productId, products, stock, alerts)]
    /\ UNCHANGED <<products, warehouses, stock, transfers, clients, alerts, args, calls>>

\* ------------------- SpecAlerts: alert actions and reads over a changing store

\* alerts.json as earlier alert actions left it; times before the first
\* request of the run are negative.
InitAlerts ==
    { <<>>,
      <<[id |-> 1, productId |-> 1, acknowledged |-> TRUE, acknowledgedAt |-> -1,
         dismissed |-> FALSE, dismissedAt |-> Null, notes |-> "",
         createdAt |-> -1, updatedAt |-> -1]>>,
      <<[id |-> 1, productId |-> 2, acknowledged |-> FALSE, acknowledgedAt |-> Null,
         dismissed |-> TRUE, dismissedAt |-> -1, notes |-> "m",
         createdAt |-> -2, updatedAt |-> -1],
        [id |-> 2, productId |-> 1, acknowledged |-> FALSE, acknowledgedAt |-> Null,
         dismissed |-> FALSE, dismissedAt |-> Null, notes |-> "",
         createdAt |-> -2, updatedAt |-> -1]>> }

InitAlertsSpec ==
    /\ products = <<Product1, Product2>>
    /\ warehouses = <<[id |-> 1], [id |-> 2]>>
    /\ stock \in InitStocks
    /\ transfers = <<>>
    /\ last = NoRequest
    /\ served = 0
    /\ clients = <<>>
    /\ alerts \in InitAlerts
    /\ args = <<>>
    /\ calls = <<>>

AlertBodies ==
    [productId : {<<"1">>, <<"2">>, <<"3">>}, action : AlertActions \cup {"snooze"},
     notes : {<<"n">>}]
    \cup { [productId |-> <<"1">>, action |-> "update_notes", notes |-> Undefined],
           [productId |-> Undefined, action |-> "acknowledge", notes |-> Undefined] }

AlertQueries ==
    [status : {<<>>, <<"out", "critical">>}, acknowledged : {<<>>, <<"true">>, <<"false">>}]

AlertTransfers ==
    [productId : ExistingIdInputs, fromWarehouseId : {<<"1">>}, toWarehouseId : {<<"2">>},
     quantity : {<<"1">>}]

AlertStockUpdates ==
    [productId : {Undefined}, warehouseId : {Undefined}, quantity : {<<"0">>, <<"2">>}]

AlertProductUpdates ==
    [text : {"ok"}, unitCost : {Undefined}, reorderPoint : {<<"0">>, <<"1">>}]

NextAlerts ==
    \/ \E body \in AlertBodies, writable \in BOOLEAN : Serve /\ AlertAction(body, writable)
    \/ \E query \in AlertQueries : Serve /\ ListAlerts(query)
    \/ \E productId \in PathIds : Serve /\ ReadAlert(productId)
    \/ \E body \in AlertTransfers : Serve /\ CreateTransfer(body, "none")
    \/ \E body \in AlertStockUpdates : Serve /\ UpdateStock(<<"1">>, body)
    \/ \E body \in AlertProductUpdates : Serve /\ UpdateProduct(<<"1">>, body)

SpecAlerts == InitAlertsSpec /\ [][NextAlerts]_vars

\* ------------------------------------------------------ claims on alerts

AlertServed == served' = served + 1 /\ last'.op = "alert"

AlertSucceeded == AlertServed /\ last'.res.status = 200

\* An alert record without its four times.
TimelessRecord(rec) ==
    [id |-> rec.id, productId |-> rec.productId, acknowledged |-> rec.acknowledged,
     dismissed |-> rec.dismissed, notes |-> rec.notes]

Timeless(alrts) == [i \in 1..Len(alrts) |-> TimelessRecord(alrts[i])]

AlertProduct(req) == parseInt(req.productId).val

\* What a product without a record counts as.
NoAlertRecord ==
    [acknowledged |-> FALSE, acknowledgedAt |-> Null, dismissed |-> FALSE,
     dismissedAt |-> Null, notes |-> ""]

RecordOf(alrts, p) ==
    IF FindAlertIndex(alrts, p) = 0 THEN NoAlertRecord ELSE alrts[FindAlertIndex(alrts, p)]

\* The flags and times the saved record of product p must show after an
\* action applied at time now to the record before.
LifecycleStep(before, after, action, now) ==
    /\ after.acknowledged =
          (CASE action = "acknowledge" -> TRUE
             [] action = "unacknowledge" -> FALSE
             [] OTHER -> before.acknowledged)
    /\ after.acknowledgedAt =
          (CASE action = "acknowledge" -> now
             [] action = "unacknowledge" -> Null
             [] OTHER -> before.acknowledgedAt)
    /\ after.dismissed =
          (CASE action = "dismiss" -> TRUE
             [] action = "undismiss" -> FALSE
             [] OTHER -> before.dismissed)
    /\ after.dismissedAt =
          (CASE action = "dismiss" -> now
             [] action = "undismiss" -> Null
             [] OTHER -> before.dismissedAt)
    /\ after.updatedAt = now

TimesMatchFlags(alrts) ==
    \A i \in 1..Len(alrts) :
        /\ (alrts[i].acknowledgedAt = Null) <=> ~alrts[i].acknowledged
        /\ (alrts[i].dismissedAt = Null) <=> ~alrts[i].dismissed

\* C22: every alert action answered with success leaves the product's record
\* with acknowledged and dismissed as the latest acknowledge/unacknowledge and
\* dismiss/undismiss set them, acknowledgedAt and dismissedAt null exactly when
\* the flag is false and otherwise the time of that action, and updatedAt the
\* time of this action; no other request changes the records.
AlertLifecycle ==
    [][/\ AlertSucceeded
            => /\ FindAlertIndex(alerts', AlertProduct(last'.req)) # 0
               /\ LifecycleStep(RecordOf(alerts, AlertProduct(last'.req)),
                                RecordOf(alerts', AlertProduct(last'.req)),
                                last'.req.action, served')
       /\ ~AlertSucceeded => alerts' = alerts
       /\ TimesMatchFlags(alerts')]_vars

\* The same, for the actions whose write of alerts.json went through.
AlertLifecyclePersisted ==
    [][/\ (AlertSucceeded /\ last'.res.persisted)
            => /\ FindAlertIndex(alerts', AlertProduct(last'.req)) # 0
               /\ LifecycleStep(RecordOf(alerts, AlertProduct(last'.req)),
                                RecordOf(alerts', AlertProduct(last'.req)),
                                last'.req.action, served')
       /\ ~(AlertSucceeded /\ last'.res.persisted) => alerts' = alerts
       /\ TimesMatchFlags(alerts')]_vars

\* An acknowledge followed by an unacknowledge, both saved.
AlertLifecyclePersistedWitness ==
    /\ served = 2
    /\ last.op = "alert"
    /\ last.req.action = "unacknowledge"
    /\ last.res.status = 200
    /\ last.res.persisted
    /\ Len(alerts) = 1
    /\ alerts[1].createdAt = 1
    /\ ~alerts[1].acknowledged
    /\ alerts[1].acknowledgedAt = Null
    /\ alerts[1].updatedAt = 2

UnknownAlertProduct(req) ==
    /\ req.productId # Undefined
    /\ parseInt(req.productId).nan \/ AlertProduct(req) \notin Ids(products)

AlertNotFoundWitness ==
    /\ last.op = "alert"
    /\ last.req.productId = <<"3">>
    /\ last.res.status = 404
    /\ Len(alerts) = 2

\* C24: an alert action is answered with success only when its change is in
\* the saved records: after a success the record of the product in
\* alerts.json is the record the response shows (a failed write is answered
\* with an error, not with success).
SuccessMeansPersisted ==
    [][AlertSucceeded
          => /\ FindAlertIndex(alerts', AlertProduct(last'.req)) # 0
             /\ RecordOf(alerts', AlertProduct(last'.req)) = last'.res.alert]_vars

\* What the handler does keep: the persisted flag of a success tells whether
\* the records were saved, and an unsaved success leaves them untouched.
PersistedFlagTruthful ==
    [][AlertSucceeded
          => IF last'.res.persisted
             THEN /\ FindAlertIndex(alerts', AlertProduct(last'.req)) # 0
                  /\ RecordOf(alerts', AlertProduct(last'.req)) = last'.res.alert
             ELSE alerts' = alerts]_vars

\* A success whose record is nowhere in the store.
UnsavedSuccessWitness ==
    /\ last.op = "alert"
    /\ last.res.status = 200
    /\ ~last.res.persisted
    /\ last.res.alert.acknowledged
    /\ alerts = <<>>

ReorderPointOf(prods, p) == prods[FindIdIndex(prods, p)].reorderPoint

AlertRecordFields ==
    {"id", "productId", "acknowledged", "acknowledgedAt", "dismissed", "dismissedAt",
     "notes", "createdAt", "updatedAt"}

\* C25: every status and severity shown by GET /api/alerts and by
\* GET /api/alerts/[productId] is the classification of the product's stock
\* summed over the warehouses as the store holds it at the time of the read,
\* against the product's reorder point of that time; the saved alert records
\* have no status or severity field.
NoStaleSeverities ==
    [][/\ (served' = served + 1 /\ last'.op = "alerts.list")
            => /\ \A i \in 1..Len(last'.res.alerts) :
                    LET view == last'.res.alerts[i]
                    IN  /\ view.productId \in Ids(products')
                        /\ view.currentStock = TotalQuantity(stock', view.productId)
                        /\ view.stockStatus =
                              getStockStatusList(TotalQuantity(stock', view.productId),
                                                 ReorderPointOf(products', view.productId))
               /\ (last'.req.status = <<>> /\ last'.req.acknowledged = <<>>)
                    => {last'.res.alerts[i].productId : i \in 1..Len(last'.res.alerts)}
                          = Ids(products')
       /\ (served' = served + 1 /\ last'.op = "alert.read" /\ last'.res.status = 200)
            => LET view == last'.res.alert
               IN  /\ view.currentStock = TotalQuantity(stock', view.productId)
                   /\ view.stockStatus =
                         getStockStatusProduct(TotalQuantity(stock', view.productId),
                                               ReorderPointOf(products', view.productId))
       /\ \A i \in 1..Len(alerts') : DOMAIN alerts'[i] = AlertRecordFields]_vars

\* The list read after a stock edit took product 1 to nothing shows it out of
\* stock, with its alert record in the store.
NoStaleSeveritiesWitness ==
    /\ served = 2
    /\ last.op = "alerts.list"
    /\ FindAlertIndex(alerts, 1) # 0
    /\ TotalQuantity(stock, 1) = 0
    /\ \E i \in 1..Len(last.res.alerts) :
          /\ last.res.alerts[i].productId = 1
          /\ last.res.alerts[i].stockStatus.status = "out"

\* The single read after the reorder point of product 1 was lowered.
SingleReadFreshWitness ==
    /\ served = 2
    /\ last.op = "alert.read"
    /\ last.res.status = 200
    /\ last.res.alert.productId = 1
    /\ last.res.alert.reorderPoint = 1
    /\ last.res.alert.stockStatus.status = "adequate"

\* C26: acknowledge and unacknowledge leave dismissed, dismissedAt and notes
\* of the product's record as they were, dismiss and undismiss leave
\* acknowledged, acknowledgedAt and notes, update_notes leaves both flags and
\* both times, and no alert request changes the record of another product.
AlertOrthogonality ==
    [][AlertServed /\ last'.req.productId # Undefined
          => LET p == AlertProduct(last'.req)
                 before == RecordOf(alerts, p)
                 after == RecordOf(alerts', p)
                 action == last'.req.action
             IN  /\ action \in {"acknowledge", "unacknowledge"}
                      => /\ after.dismissed = before.dismissed
                         /\ after.dismissedAt = before.dismissedAt
                         /\ after.notes = before.notes
                 /\ action \in {"dismiss", "undismiss"}
                      => /\ after.acknowledged = before.acknowledged
                         /\ after.acknowledgedAt = before.acknowledgedAt
                         /\ after.notes = before.notes
                 /\ action = "update_notes"
                      => /\ after.acknowledged = before.acknowledged
                         /\ after.acknowledgedAt = before.acknowledgedAt
                         /\ after.dismissed = before.dismissed
                         /\ after.dismissedAt = before.dismissedAt
                 /\ \A q \in ProductIds \ {p} :
                       /\ FindAlertIndex(alerts', q) = 0 <=> FindAlertIndex(alerts, q) = 0
                       /\ FindAlertIndex(alerts, q) # 0
                            => RecordOf(alerts', q) = RecordOf(alerts, q)]_vars

\* The dismissed record of product 2, with its notes, was acknowledged and
\* saved; the record of product 1 is the one of the start.
AlertOrthogonalityWitness ==
    /\ served = 1
    /\ last.op = "alert"
    /\ last.req.action = "acknowledge"
    /\ last.req.productId = <<"2">>
    /\ last.res.persisted
    /\ Len(alerts) = 2
    /\ alerts[1].acknowledged
    /\ alerts[1].dismissed
    /\ alerts[1].dismissedAt = -1
    /\ alerts[1].notes = "m"
    /\ alerts[2].updatedAt = -1

OneRecordPerProduct(alrts) ==
    \A i, j \in 1..Len(alrts) : alrts[i].productId = alrts[j].productId => i = j

\* C27: the saved alert records never hold two records of one product; a
\* saved action adds a record only when the product had none, and that record
\* is the fresh one (acknowledged false, dismissed false, notes empty, created
\* now) with the action applied; every other request leaves the number of
\* records alone; GET /api/alerts shows a product without a record as not
\* acknowledged, not dismissed, with empty notes.
AlertRecordUniqueness ==
    [][/\ OneRecordPerProduct(alerts')
       /\ (AlertSucceeded /\ last'.res.persisted)
            => LET p == AlertProduct(last'.req)
                   action == last'.req.action
               IN  IF FindAlertIndex(alerts, p) # 0
                   THEN /\ Len(alerts') = Len(alerts)
                        /\ FindAlertIndex(alerts', p) = FindAlertIndex(alerts, p)
                   ELSE /\ Len(alerts') = Len(alerts) + 1
                        /\ SubSeq(alerts', 1, Len(alerts)) = alerts
                        /\ alerts'[Len(alerts')].productId = p
                        /\ alerts'[Len(alerts')].createdAt = served'
                        /\ alerts'[Len(alerts')].acknowledged = (action = "acknowledge")
                        /\ alerts'[Len(alerts')].dismissed = (action = "dismiss")
                        /\ action # "update_notes" => alerts'[Len(alerts')].notes = ""
       /\ ~(AlertSucceeded /\ last'.res.persisted) => Len(alerts') = Len(alerts)
       /\ (served' = served + 1 /\ last'.op = "alerts.list")
            => \A i \in 1..Len(last'.res.alerts) :
                  LET view == last'.res.alerts[i]
                  IN  FindAlertIndex(alerts', view.productId) = 0
                         => /\ ~view.acknowledged
                            /\ view.acknowledgedAt = Null
                            /\ ~view.dismissed
                            /\ view.notes = ""]_vars

\* A dismiss created the record of product 2 next to the record of product 1,
\* and a second action on product 2 added nothing.
AlertRecordUniquenessWitness ==
    /\ served = 2
    /\ last.op = "alert"
    /\ last.req.productId = <<"2">>
    /\ last.res.persisted
    /\ Len(alerts) = 2
    /\ alerts[1].productId = 1
    /\ alerts[1].createdAt = -1
    /\ alerts[2].productId = 2
    /\ alerts[2].createdAt = 1
    /\ alerts[2].updatedAt = 2
    /\ alerts[2].dismissed
    /\ alerts[2].notes = ""

\* The list shows the product without a record with the defaults.
ListDefaultsWitness ==
    /\ last.op = "alerts.list"
    /\ Len(alerts) = 1
    /\ \E i \in 1..Len(last.res.alerts) :
          /\ last.res.alerts[i].productId = 2
          /\ ~last.res.alerts[i].acknowledged
          /\ last.res.alerts[i].notes = ""

\* ------------------------------------------- claims on references of stock

ReferencesExist(stk, prods, whs) ==
    \A i \in 1..Len(stk) :
        /\ stk[i].productId \in Ids(prods)
        /\ stk[i].warehouseId \in Ids(whs)

\* The id a request gives names no record of the collection.
UnknownId(raw, ids) == raw = Undefined \/ parseInt(raw).nan \/ parseInt(raw).val \notin ids

Refused == last'.res.status \notin {200, 201} /\ stock' = stock

\* C28: after every product, warehouse, stock and transfer request each
\* stock record names a product and a warehouse that exist; a stock creation,
\* a stock update and a transfer naming a product or warehouse that does not
\* exist are refused and leave stock alone; so no deletion leaves a stock
\* record behind whose product or warehouse is gone.
ReferentialIntegrity ==
    [][/\ ReferencesExist(stock', products', warehouses')
       /\ (/\ served' = served + 1
           /\ last'.op = "stock.create"
           /\ \/ UnknownId(last'.req.productId, Ids(products))
              \/ UnknownId(last'.req.warehouseId, Ids(warehouses)))
            => Refused
       /\ (/\ served' = served + 1
           /\ last'.op = "stock.update"
           /\ \/ /\ last'.req.body.productId # Undefined
                 /\ UnknownId(last'.req.body.productId, Ids(products))
              \/ /\ last'.req.body.warehouseId # Undefined
                 /\ UnknownId(last'.req.body.warehouseId, Ids(warehouses)))
            => Refused
       /\ (/\ served' = served + 1
           /\ last'.op = "transfer"
           /\ \/ UnknownId(last'.req.productId, Ids(products))
              \/ UnknownId(last'.req.fromWarehouseId, Ids(warehouses))
              \/ UnknownId(last'.req.toWarehouseId, Ids(warehouses)))
            => Refused]_vars

\* Product 1 was deleted with its stock, and a stock record for it was then
\* refused.
ReferentialIntegrityWitness ==
    /\ served = 2
    /\ last.op = "stock.create"
    /\ last.req.productId = <<"1">>
    /\ 1 \notin Ids(products)
    /\ last.res.status \notin {200, 201}
    /\ stock # <<>>
    /\ \A i \in 1..Len(stock) : stock[i].productId = 2

\* Warehouse 2 was deleted with its stock, and moving a record to it was
\* then refused.
StockUpdateRefusedWitness ==
    /\ served = 2
    /\ last.op = "stock.update"
    /\ last.req.body.warehouseId = <<"2">>
    /\ 2 \notin Ids(warehouses)
    /\ last.res.status \notin {200, 201}
    /\ stock # <<>>

\* ------------------------------------- claims on the list's recommendation

ListStatusCalls == {i \in 1..Len(calls) : calls[i].fn = "alerts.getStockStatus"}

ListRecommendCalls == {i \in 1..Len(calls) : calls[i].fn = "alerts.getReorderRecommendation"}

\* C29: for one product of the list, the recommendation attached by
\* GET /api/alerts is not null exactly when the severity of its status is 2
\* or more, and with a reorder point above zero its urgency is critical
\* exactly when the status is out or critical.
RecommendationMatchesSeverity ==
    \A i \in ListStatusCalls, j \in ListRecommendCalls :
        /\ ~calls[j].result.isNull <=> calls[i].result.severity >= 2
        /\ (args.reorderPoint > 0 /\ ~calls[j].result.isNull)
              => (calls[j].result.urgency = "critical"
                     <=> calls[i].result.status \in {"out", "critical"})

\* A critical product: its recommendation is there and urgent.
RecommendationMatchesSeverityWitness ==
    /\ Len(calls) = 2
    /\ args.reorderPoint > 0
    /\ calls[1].fn = "alerts.getStockStatus"
    /\ calls[1].result.status = "critical"
    /\ calls[2].fn = "alerts.getReorderRecommendation"
    /\ ~calls[2].result.isNull
    /\ calls[2].result.urgency = "critical"

\* The same on the entries GET /api/alerts answers with.
ListRecommendationMatchesSeverity ==
    [][(served' = served + 1 /\ last'.op = "alerts.list")
          => \A i \in 1..Len(last'.res.alerts) :
                LET view == last'.res.alerts[i]
                IN  /\ ~view.reorderRecommendation.isNull <=> view.stockStatus.severity >= 2
                    /\ (view.reorderPoint > 0 /\ ~view.reorderRecommendation.isNull)
                          => (view.reorderRecommendation.urgency = "critical"
                                 <=> view.stockStatus.status \in {"out", "critical"})]_vars

\* ------------------------------- SpecTransfers: runs of transfer requests only

RunTransfers ==
    [productId : {<<"1">>, <<"2">>, <<"3">>}, fromWarehouseId : ExistingIdInputs,
     toWarehouseId : ExistingIdInputs, quantity : {<<"1">>, <<"2">>}]

NextTransfers ==
    \E body \in RunTransfers, fault \in {"none"} \cup Faults :
        Serve /\ CreateTransfer(body, fault)

SpecTransfers == Init /\ [][NextTransfers]_vars

\* What the Transfer records say has come into warehouse w of product p,
\* less what they say has left it.
RECURSIVE Moved(_, _, _)
Moved(trs, p, w) ==
    IF trs = <<>> THEN 0
    ELSE LET t == Head(trs)
         IN  (IF t.productId = p /\ t.toWarehouseId = w THEN t.quantity ELSE 0)
             - (IF t.productId = p /\ t.fromWarehouseId = w THEN t.quantity ELSE 0)
             + Moved(Tail(trs), p, w)

\* The quantity of the start, as stock and the Transfer records give it.
Net(stk, trs, p, w) == Quantity(stk, p, w) - Moved(trs, p, w)

\* C30: in a run of transfer requests only, whatever their outcome, each
\* quantity stays the quantity of the start plus the recorded transfers in
\* minus the recorded transfers out, and one Transfer record is added by each
\* request answered with success and by no other.
TransferLedger ==
    [][/\ \A p \in ProductIds, w \in WarehouseIds :
             Net(stock', transfers', p, w) = Net(stock, transfers, p, w)
       /\ Len(transfers') =
             Len(transfers) + (IF TransferServed /\ last'.res.status = 201 THEN 1 ELSE 0)]_vars

\* The same, leaving out the requests that ended with 500.
TransferLedgerAnswered ==
    [][(TransferServed /\ last'.res.status # 500)
          => /\ \A p \in ProductIds, w \in WarehouseIds :
                   Net(stock', transfers', p, w) = Net(stock, transfers, p, w)
             /\ Len(transfers') =
                   Len(transfers) + (IF last'.res.status = 201 THEN 1 ELSE 0)]_vars

\* Two transfers went through and are both on record.
TransferLedgerAnsweredWitness ==
    /\ served = 2
    /\ last.op = "transfer"
    /\ last.res.status = 201
    /\ Len(transfers) = 2
    /\ transfers[1].productId = transfers[2].productId

\* A request ended with 500 and the stock moved without a record.
UnrecordedMoveWitness ==
    /\ served = 1
    /\ last.op = "transfer"
    /\ last.res.status = 500
    /\ transfers = <<>>
    /\ Quantity(stock, 2, 1) = 0
    /\ Quantity(stock, 2, 2) = 1

====
